---------------------------- MODULE Spec2Model ----------------------------
(***************************************************************************)
(* A model of the schema/data addressing engine of 23233/jsonschema        *)
(* (src/helper.go): the reference resolver (ResolveRef, SchemaRefParse),   *)
(* the pointer navigator (GetSchemaMapByPointer), the access-key generator *)
(* (traverse, GenAccessKeys) and the access-key evaluator                  *)
(* (FindDataByAccessKey).                                                  *)
(*                                                                         *)
(* Go strings are sequences of one-character strings, so that Split, Join, *)
(* TrimPrefix and Atoi are computed as the Go library computes them.       *)
(* A Go value of type `any` is a tagged record:                            *)
(*   [t |-> "nil"]                       the nil interface (JSON null)      *)
(*   [t |-> "str", s |-> chars]          a string                          *)
(*   [t |-> "seq", e |-> <<..>>, isnil]  a []any; isnil marks the nil slice *)
(*   [t |-> "map", m |-> f]              a map[string]any, f a function    *)
(*                                       from strings to values            *)
(* A call either returns or ends the process with a Go runtime failure     *)
(* (a panic, or the fatal stack overflow of unbounded recursion).          *)
(***************************************************************************)
EXTENDS Integers, Sequences, FiniteSets, TLC

VARIABLES
    raw,         \* SchemaHelper.raw: the document of the helper
    visited,     \* SchemaHelper.visited: the keys of the visited map
    accessKeys,  \* SchemaHelper.accessKeys: the memoized access keys
    heap,        \* number of refSchema variables allocated so far
    op,          \* the operation called last
    arg,         \* its arguments
    ret,         \* what it returned
    prev,        \* what the call before it returned
    calls        \* number of calls made so far

vars == <<raw, visited, accessKeys, heap, op, arg, ret, prev, calls>>

-----------------------------------------------------------------------------
(* Go values *)

Nil == [t |-> "nil"]
Str(cs) == [t |-> "str", s |-> cs]
Slice(es) == [t |-> "seq", e |-> es, isnil |-> FALSE]
NilSlice == [t |-> "seq", e |-> <<>>, isnil |-> TRUE]
Map(f) == [t |-> "map", m |-> f]
EmptyMap == Map(<<>>)

IsNil(v) == v.t = "nil"
IsStr(v) == v.t = "str"
IsSlice(v) == v.t = "seq"
IsMap(v) == v.t = "map"

\* A runtime failure of the process: a panic (index out of range, failed
\* type assertion, slice bounds) or the fatal stack overflow.
Panic(why) == [t |-> "panic", why |-> why]
IsPanic(v) == v.t = "panic"

\* m[key] of a Go map: the nil interface when the key is absent.
MapGet(v, key) == IF key \in DOMAIN v.m THEN v.m[key] ELSE Nil
MapHas(v, key) == key \in DOMAIN v.m

-----------------------------------------------------------------------------
(* Go strings: strings.HasPrefix, TrimPrefix, Split, Join, Index, Atoi *)

HasPrefix(s, prefix) ==
    /\ Len(prefix) <= Len(s)
    /\ SubSeq(s, 1, Len(prefix)) = prefix

TrimPrefix(s, prefix) ==
    IF HasPrefix(s, prefix) THEN SubSeq(s, Len(prefix) + 1, Len(s)) ELSE s

\* strings.Split(s, sep) for a one-character separator: n separators give
\* n+1 parts, so the empty string gives one empty part.
RECURSIVE SplitFrom(_, _, _, _)
SplitFrom(s, sep, i, cur) ==
    IF i > Len(s) THEN <<cur>>
    ELSE IF s[i] = sep THEN <<cur>> \o SplitFrom(s, sep, i + 1, <<>>)
    ELSE SplitFrom(s, sep, i + 1, Append(cur, s[i]))

\* a split that leaves a separator standing right after a "*" in its part
RECURSIVE SplitFromKeepingStar(_, _, _, _)
SplitFromKeepingStar(s, sep, i, cur) ==
    IF i > Len(s) THEN <<cur>>
    ELSE IF s[i] = sep /\ ~(Len(cur) > 0 /\ cur[Len(cur)] = "*")
    THEN <<cur>> \o SplitFromKeepingStar(s, sep, i + 1, <<>>)
    ELSE SplitFromKeepingStar(s, sep, i + 1, Append(cur, s[i]))

SplitKeepingStar(s, sep) == SplitFromKeepingStar(s, sep, 1, <<>>)

Split(s, sep) == SplitFrom(s, sep, 1, <<>>)

\* strings.Join(parts, sep): the empty list gives the empty string.
RECURSIVE Join(_, _)
Join(parts, sep) ==
    IF Len(parts) = 0 THEN <<>>
    ELSE IF Len(parts) = 1 THEN parts[1]
    ELSE parts[1] \o <<sep>> \o Join(Tail(parts), sep)

Digits == <<"0", "1", "2", "3", "4", "5", "6", "7", "8", "9">>
IsDigit(c) == \E d \in 1..Len(Digits) : Digits[d] = c
DigitVal(c) == (CHOOSE d \in 1..Len(Digits) : Digits[d] = c) - 1

RECURSIVE DecimalVal(_, _)
DecimalVal(s, acc) ==
    IF Len(s) = 0 THEN acc ELSE DecimalVal(Tail(s), acc * 10 + DigitVal(s[1]))

\* strconv.Atoi: an optional sign and at least one digit; on a syntax error
\* the number returned is 0.
Atoi(s) ==
    LET signed == Len(s) > 0 /\ s[1] \in {"+", "-"}
        body == IF signed THEN Tail(s) ELSE s
        ok == Len(body) > 0 /\ \A i \in 1..Len(body) : IsDigit(body[i])
    IN  IF ~ok THEN [ok |-> FALSE, n |-> 0]
        ELSE [ok |-> TRUE,
              n |-> IF signed /\ s[1] = "-" THEN 0 - DecimalVal(body, 0)
                    ELSE DecimalVal(body, 0)]

\* strings.Index(key, "*."), 0-based; -1 when absent.
IndexStarDot(key) ==
    IF \E p \in 1..(Len(key) - 1) : key[p] = "*" /\ key[p + 1] = "."
    THEN (CHOOSE p \in 1..(Len(key) - 1) :
             /\ key[p] = "*" /\ key[p + 1] = "."
             /\ \A q \in 1..(p - 1) : ~(key[q] = "*" /\ key[q + 1] = ".")) - 1
    ELSE -1

\* regexp.MatchString(`\*\.\d+`, key): unanchored.
MatchStarDotDigits(key) ==
    \E p \in 1..(Len(key) - 2) :
        key[p] = "*" /\ key[p + 1] = "." /\ IsDigit(key[p + 2])

\* regexp.MatchString(`\*\.[^*]+`, key): unanchored.
MatchStarDotNotStar(key) ==
    \E p \in 1..(Len(key) - 2) :
        key[p] = "*" /\ key[p + 1] = "." /\ key[p + 2] # "*"

-----------------------------------------------------------------------------
(* The keywords of a schema document, as Go strings *)

sType == <<"t", "y", "p", "e">>
sProperties == <<"p", "r", "o", "p", "e", "r", "t", "i", "e", "s">>
sItems == <<"i", "t", "e", "m", "s">>
sRef == <<"$", "r", "e", "f">>
sDefs == <<"$", "d", "e", "f", "s">>
sWidget == <<"w", "i", "d", "g", "e", "t">>
sObject == <<"o", "b", "j", "e", "c", "t">>
sArray == <<"a", "r", "r", "a", "y">>
sString == <<"s", "t", "r", "i", "n", "g">>
sNumber == <<"n", "u", "m", "b", "e", "r">>
sRawJsonTree == <<"R", "a", "w", "J", "s", "o", "n", "T", "r", "e", "e">>

-----------------------------------------------------------------------------
(* What a schema operation returns: (schema, nil), (nil, error), or a      *)
(* runtime failure                                                         *)

Ok(node) == [t |-> "ok", node |-> node]
Err(e) == [t |-> "err", e |-> e, node |-> Nil]
IsOk(r) == r.t = "ok"
IsErr(r) == r.t = "err"

\* the state of a SchemaHelper the resolver reads and writes
Helper(r, v, h) == [raw |-> r, visited |-> v, heap |-> h]
\* a result together with the helper state left behind
Outcome(res, h) == [res |-> res, visited |-> h.visited, heap |-> h.heap]

-----------------------------------------------------------------------------
(* The reference resolver: ResolveRef and SchemaRefParse *)

\* the deepest call stack the runtime grants before it ends the process
\* with a fatal stack overflow
MaxStack == 8

\* the walk of ResolveRef's loop, helper.go 27-32
RECURSIVE ResolveParts(_, _)
ResolveParts(target, parts) ==
    IF Len(parts) = 0 THEN Ok(target)
    ELSE IF ~MapHas(target, parts[1]) THEN Err("schema not found")
    ELSE IF ~IsMap(target.m[parts[1]])
    THEN Panic("interface conversion: not map[string]any")
    ELSE ResolveParts(target.m[parts[1]], Tail(parts))

ResolveRef(r, ref) ==
    IF ~HasPrefix(ref, <<"#">>) THEN Err("non-local reference")
    ELSE ResolveParts(r, Split(TrimPrefix(ref, <<"#", "/">>), "/"))

\* the key of c.visited, helper.go 154 and 159: &refSchema, the address of
\* the local variable refSchema. The variable escapes to the heap, every
\* call allocates a new one, and the map keeps all earlier ones alive, so
\* the address is new whatever the target is.
VisitedKeyByTarget(addr, ref) == ref
VisitedKey(addr, ref) == addr

\* a dereference that does not look at what the target holds
SchemaRefParseOnce(h, schema, depth) ==
    IF ~MapHas(schema, sRef) THEN Outcome(Ok(schema), h)
    ELSE IF ~IsStr(schema.m[sRef]) THEN Outcome(Err("invalid $ref"), h)
    ELSE Outcome(ResolveRef(h.raw, schema.m[sRef].s),
                 Helper(h.raw, h.visited, h.heap + 1))

RECURSIVE SchemaRefParse(_, _, _)
SchemaRefParse(h, schema, depth) ==
    IF ~MapHas(schema, sRef) THEN Outcome(Ok(schema), h)
    ELSE IF ~IsStr(schema.m[sRef]) THEN Outcome(Err("invalid $ref"), h)
    ELSE
    LET ref == schema.m[sRef].s
        refSchema == ResolveRef(h.raw, ref)
        key == VisitedKey(h.heap + 1, ref)
        alloc == Helper(h.raw, h.visited, h.heap + 1)
    IN  IF ~IsOk(refSchema) THEN Outcome(refSchema, alloc)
        ELSE IF key \in h.visited
        THEN Outcome(Err("circular reference detected in schema"), alloc)
        ELSE IF depth >= MaxStack THEN Outcome(Panic("stack overflow"), alloc)
        ELSE SchemaRefParse(Helper(h.raw, h.visited \cup {key}, h.heap + 1),
                            refSchema.node, depth + 1)

-----------------------------------------------------------------------------
(* The pointer navigator: GetSchemaMapByPointer, helper.go 57-136 *)

\* case "object", lines 81-90
StepObject(schema, part) ==
    IF ~MapHas(schema, sProperties) \/ ~IsMap(MapGet(schema, sProperties))
    THEN Err("invalid schema properties")
    ELSE LET properties == schema.m[sProperties] IN
         IF ~MapHas(properties, part) THEN Err("schema properties not has key")
         ELSE IF ~IsMap(properties.m[part])
         THEN Panic("interface conversion: not map[string]any")
         ELSE Ok(properties.m[part])

\* the index of a positional items list, lines 101-117
StepItemsArrayOffByOne(itemsArray, part) ==
    LET index == Atoi(part) IN
    IF ~index.ok THEN Err("invalid JSON pointer format index")
    ELSE IF index.n > Len(itemsArray)
    THEN Err("invalid JSON pointer, segment index out of range")
    ELSE IF index.n < 0 \/ index.n = Len(itemsArray)
    THEN Panic("index out of range")
    ELSE IF ~IsMap(itemsArray[index.n + 1])
    THEN Err("invalid JSON pointer, target schema in array but item not a map")
    ELSE Ok(itemsArray[index.n + 1])

StepItemsArray(itemsArray, part) ==
    LET index == Atoi(part) IN
    IF ~index.ok THEN Err("invalid JSON pointer format index")
    ELSE IF index.n >= Len(itemsArray)
    THEN Err("invalid JSON pointer, segment index out of range")
    ELSE IF index.n < 0 THEN Panic("index out of range")
    ELSE IF ~IsMap(itemsArray[index.n + 1])
    THEN Err("invalid JSON pointer, target schema in array but item not a map")
    ELSE Ok(itemsArray[index.n + 1])

\* an array step that wants an index whatever items is
StepArrayIndexed(schema, part) ==
    LET items == MapGet(schema, sItems) IN
    IF IsMap(items)
    THEN (IF Atoi(part).ok THEN Ok(items)
          ELSE Err("invalid JSON pointer format index"))
    ELSE IF ~IsSlice(items) \/ Len(items.e) = 0 THEN Err("invalid schema items")
    ELSE StepItemsArray(items.e, part)

\* case "array", lines 91-121
StepArray(schema, part) ==
    LET items == MapGet(schema, sItems) IN
    IF IsMap(items) THEN Ok(items)
    ELSE IF ~IsSlice(items) \/ Len(items.e) = 0 THEN Err("invalid schema items")
    ELSE StepItemsArray(items.e, part)

\* a pass that stays at a node that is no container
StepStaying(schema, part) ==
    IF part = <<>> THEN Err("invalid JSON pointer")
    ELSE IF IsNil(schema) THEN Err("schema is empty")
    ELSE IF ~MapHas(schema, sType) THEN Ok(schema)
    ELSE IF schema.m[sType] = Str(sObject) THEN StepObject(schema, part)
    ELSE IF schema.m[sType] = Str(sArray) THEN StepArray(schema, part)
    ELSE Ok(schema)

\* one pass of the loop up to the dereference, lines 70-125
Step(schema, part) ==
    IF part = <<>> THEN Err("invalid JSON pointer")
    ELSE IF IsNil(schema) THEN Err("schema is empty")
    ELSE IF ~MapHas(schema, sType) THEN Err("invalid schema type")
    ELSE IF schema.m[sType] = Str(sObject) THEN StepObject(schema, part)
    ELSE IF schema.m[sType] = Str(sArray) THEN StepArray(schema, part)
    ELSE Err("unsupported schema type")

\* the loop over the parts, each pass ending in SchemaRefParse
RECURSIVE PointerLoop(_, _, _)
PointerLoop(h, schema, parts) ==
    IF Len(parts) = 0 THEN Outcome(Ok(schema), h)
    ELSE LET stepped == Step(schema, parts[1]) IN
         IF ~IsOk(stepped) THEN Outcome(stepped, h)
         ELSE LET parsed == SchemaRefParse(h, stepped.node, 1) IN
              IF ~IsOk(parsed.res) THEN parsed
              ELSE PointerLoop(Helper(h.raw, parsed.visited, parsed.heap),
                               parsed.res.node, Tail(parts))

\* lines 64-68: one leading "#" and one leading "/" are trimmed
PointerParts(pointer) ==
    Split(TrimPrefix(TrimPrefix(pointer, <<"#">>), <<"/">>), "/")

\* a method that walks from c.raw instead of its schema argument
HelperGetSchemaMapByPointerFromRaw(h, schema, pointer) ==
    IF Len(pointer) < 1 THEN Outcome(Err("pointer is empty"), h)
    ELSE IF pointer = <<"#">> \/ pointer = <<"/">> THEN Outcome(Ok(h.raw), h)
    ELSE PointerLoop(h, h.raw, PointerParts(pointer))

\* the method c.GetSchemaMapByPointer(schema, pointer)
HelperGetSchemaMapByPointer(h, schema, pointer) ==
    IF Len(pointer) < 1 THEN Outcome(Err("pointer is empty"), h)
    ELSE IF pointer = <<"#">> \/ pointer = <<"/">> THEN Outcome(Ok(schema), h)
    ELSE PointerLoop(h, schema, PointerParts(pointer))

\* NewSchemaHelper, lines 235-241, for an input that is a map already
NewSchemaHelper(input) == Helper(input, {}, 0)

\* the package function, lines 245-248: a new helper on every call
GetSchemaMapByPointer(schema, pointer) ==
    HelperGetSchemaMapByPointer(NewSchemaHelper(schema), schema, pointer).res

-----------------------------------------------------------------------------
(* The access-key generator: traverse and GenAccessKeys, helper.go 168-233 *)

\* strconv.Itoa of an index
RECURSIVE Itoa(_)
Itoa(n) == IF n < 10 THEN <<Digits[n + 1]>>
           ELSE Itoa(n \div 10) \o <<Digits[(n % 10) + 1]>>

\* the state a traversal reads and writes; crash holds the runtime failure
\* that ended it, if any
Walk(v, h, keys, crash) ==
    [visited |-> v, heap |-> h, accessKeys |-> keys, crash |-> crash]
Emit(w, path) ==
    Walk(w.visited, w.heap, Append(w.accessKeys, path), w.crash)
Crashed(w, why) == Walk(w.visited, w.heap, w.accessKeys, Panic(why))
IsCrashed(w) == IsPanic(w.crash)
\* a walk that a failed SchemaRefParse ends
AfterAborting(w, parsed) ==
    Walk(parsed.visited, parsed.heap, w.accessKeys,
         IF ~IsOk(parsed.res) THEN Panic("dereference failed") ELSE w.crash)

\* the walk after a SchemaRefParse
After(w, parsed) ==
    Walk(parsed.visited, parsed.heap, w.accessKeys,
         IF IsPanic(parsed.res) THEN parsed.res ELSE w.crash)

\* path := name; if currentPath != "" { path = currentPath + "." + name }
ChildPath(currentPath, name) ==
    IF currentPath # <<>> THEN currentPath \o <<".">> \o name ELSE name

\* the keys a range over a Go map visits, in the enumeration order `ord`
RangeKeys(v, ord) == SelectSeq(ord, LAMBDA key : MapHas(v, key))

\* In the operators below {f(x) : x \in {e}} stands for f(e) with e
\* evaluated once, and Only picks the one element of such a set.
Only(S) == CHOOSE x \in S : TRUE

RECURSIVE traverse(_, _, _, _, _, _)
RECURSIVE traverseProperties(_, _, _, _, _, _, _)
RECURSIVE traverseItems(_, _, _, _, _, _, _)

\* for propertyName, propertySchema := range properties, lines 181-187
traverseProperties(r, w, properties, names, currentPath, depth, ord) ==
    IF IsCrashed(w) \/ Len(names) = 0 THEN w
    ELSE IF ~IsMap(properties.m[names[1]])
    THEN Crashed(w, "interface conversion: not map[string]any")
    ELSE Only({traverseProperties(r, w1, properties, Tail(names),
                                  currentPath, depth, ord) :
               w1 \in {traverse(r, w, properties.m[names[1]],
                                ChildPath(currentPath, names[1]),
                                depth + 1, ord)}})

\* for index, item := range items, lines 193-199, index counted from 0
traverseItems(r, w, items, index, currentPath, depth, ord) ==
    IF IsCrashed(w) \/ index >= Len(items) THEN w
    ELSE IF ~IsMap(items[index + 1])
    THEN Crashed(w, "interface conversion: not map[string]any")
    ELSE Only({traverseItems(r, w1, items, index + 1, currentPath, depth, ord) :
               w1 \in {traverse(r, w, items[index + 1],
                                ChildPath(currentPath, Itoa(index)),
                                depth + 1, ord)}})

\* a walk that marks the elements of every homogeneous array with ".*"
traverseSingleItemsStarred(r, w, parsedItems, currentPath, depth, ord) ==
    LET itemsSchema == parsedItems.res.node IN
    IF ~IsOk(parsedItems.res) THEN w
    ELSE IF ~IsStr(MapGet(itemsSchema, sType))
    THEN Crashed(w, "interface conversion: not string")
    ELSE IF itemsSchema.m[sType].s \in {sArray, sObject}
    THEN traverse(r, w, itemsSchema, currentPath \o <<".", "*">>,
                  depth + 1, ord)
    ELSE Emit(w, currentPath \o <<".", "*">>)

\* lines 200-212: items is a single schema
traverseSingleItems(r, w, parsedItems, currentPath, depth, ord) ==
    LET itemsSchema == parsedItems.res.node IN
    IF ~IsOk(parsedItems.res) THEN w
    ELSE IF ~IsStr(MapGet(itemsSchema, sType))
    THEN Crashed(w, "interface conversion: not string")
    ELSE IF itemsSchema.m[sType].s \in {sArray, sObject}
    THEN traverse(r, w, itemsSchema, currentPath \o <<".", "*">>,
                  depth + 1, ord)
    ELSE Emit(w, currentPath)

\* line 176: widget, ok := schema["widget"].(string); ok && widget == ...
NeverOpaqueLeaf(schema) == FALSE
IsOpaqueLeaf(schema) == MapGet(schema, sWidget) = Str(sRawJsonTree)

\* lines 174-216: the node after its $ref is parsed
traverseParsed(r, w, parsed, currentPath, depth, ord) ==
    LET schema == parsed.res.node IN
    IF ~IsOk(parsed.res) THEN w
    ELSE IF ~IsStr(MapGet(schema, sType))
    THEN Crashed(w, "interface conversion: not string")
    ELSE IF schema.m[sType].s = sObject THEN
        IF IsOpaqueLeaf(schema) THEN Emit(w, currentPath)
        ELSE IF IsMap(MapGet(schema, sProperties))
        THEN traverseProperties(r, w, schema.m[sProperties],
                 RangeKeys(schema.m[sProperties], ord), currentPath, depth, ord)
        ELSE w
    ELSE IF schema.m[sType].s = sArray THEN
        IF IsSlice(MapGet(schema, sItems))
        THEN traverseItems(r, w, schema.m[sItems].e, 0, currentPath, depth, ord)
        ELSE IF IsMap(MapGet(schema, sItems))
        THEN Only({traverseSingleItems(r, After(w, parsedItems), parsedItems,
                                       currentPath, depth, ord) :
                   parsedItems \in {SchemaRefParse(Helper(r, w.visited, w.heap),
                                                   schema.m[sItems], depth + 1)}})
        ELSE w
    ELSE Emit(w, currentPath)

traverse(r, w, currentSchema, currentPath, depth, ord) ==
    IF depth > MaxStack THEN Crashed(w, "stack overflow")
    ELSE Only({traverseParsed(r, After(w, parsed), parsed,
                              currentPath, depth, ord) :
               parsed \in {SchemaRefParse(Helper(r, w.visited, w.heap),
                                          currentSchema, depth + 1)}})

\* lines 228-232, after the traversal
DropEmptyFirst(w) ==
    IF IsCrashed(w) THEN w
    ELSE IF Len(w.accessKeys) = 0 THEN Crashed(w, "index out of range")
    ELSE IF w.accessKeys[1] = <<>>
    THEN Walk(w.visited, w.heap, Tail(w.accessKeys), w.crash)
    ELSE w

\* a GenAccessKeys that walks the document on every call
GenAccessKeysAgain(r, w, ord) ==
    Only({DropEmptyFirst(w1) : w1 \in {traverse(r, w, r, <<>>, 1, ord)}})

\* GenAccessKeys, lines 220-233
GenAccessKeys(r, w, ord) ==
    IF Len(w.accessKeys) > 0 THEN w
    ELSE Only({DropEmptyFirst(w1) : w1 \in {traverse(r, w, r, <<>>, 1, ord)}})

-----------------------------------------------------------------------------
(* The access-key evaluator: FindDataByAccessKey, helper.go 250-366 *)

\* range over a Go map: the values in the enumeration order `ord`, a
\* sequence of keys; Go leaves the order unspecified, so the caller draws it.
RECURSIVE RangeValues(_, _)
RangeValues(v, ord) ==
    IF Len(ord) = 0 THEN <<>>
    ELSE (IF MapHas(v, ord[1]) THEN <<v.m[ord[1]]>> ELSE <<>>)
         \o RangeValues(v, Tail(ord))

\* an append that does not splice a sequence
AppendElemNested(result, elem) ==
    IF IsNil(elem) THEN result ELSE Append(result, elem)

AppendElemKeepNil(result, elem) ==
    IF IsSlice(elem) THEN result \o elem.e ELSE Append(result, elem)

\* if elem != nil { switch elem.(type) { case []any: append(result, e...)
\*                                       default: append(result, elem) } }
AppendElem(result, elem) ==
    IF IsNil(elem) THEN result
    ELSE IF IsSlice(elem) THEN result \o elem.e
    ELSE Append(result, elem)

\* `var result []any` after the appends: still the nil slice when nothing
\* was appended.
ResultSlice(result) == IF Len(result) = 0 THEN NilSlice ELSE Slice(result)

\* the compound object branch's switch, lines 335-348
AppendByObjKey(result, elem, objKey) ==
    IF IsMap(elem)
    THEN (IF MapHas(elem, objKey) THEN Append(result, elem.m[objKey]) ELSE result)
    ELSE IF IsSlice(elem)
    THEN result \o SelectSeq(
             [n \in 1..Len(elem.e) |->
                 IF IsMap(elem.e[n]) /\ MapHas(elem.e[n], objKey)
                 THEN elem.e[n].m[objKey] ELSE Panic("skip")],
             LAMBDA w : ~IsPanic(w))
    ELSE result

\* `return []any{}`, lines 301 and 306: an index past the end, or a null
\* element
IndexMissAbsent == Nil
IndexMiss == Slice(<<>>)

\* `return nil`, line 357: a key the mapping lacks or stores null under
KeyMissEmpty == Slice(<<>>)
KeyMiss == Nil

RECURSIVE FindDataByAccessKey(_, _, _)
RECURSIVE FindLoop(_, _, _, _)
RECURSIVE Broadcast(_, _, _, _)
RECURSIVE BroadcastByObjKey(_, _, _, _, _)

\* the two `*` loops, lines 260-272 and 313-326: every element (or value)
\* is evaluated against the remaining segments, joined again by "."
Broadcast(vals, rest, ord, result) ==
    IF Len(vals) = 0 THEN ResultSlice(result)
    ELSE LET elem == FindDataByAccessKey(vals[1], rest, ord)
         IN  IF IsPanic(elem) THEN elem
             ELSE Broadcast(Tail(vals), rest, ord, AppendElem(result, elem))

\* the loop of the compound object branch, lines 331-351
BroadcastByObjKey(vals, rest, ord, objKey, result) ==
    IF Len(vals) = 0 THEN ResultSlice(result)
    ELSE LET elem == FindDataByAccessKey(vals[1], rest, ord)
         IN  IF IsPanic(elem) THEN elem
             ELSE BroadcastByObjKey(Tail(vals), rest, ord, objKey,
                      IF IsNil(elem) THEN result
                      ELSE AppendByObjKey(result, elem, objKey))

\* the body of `for i := 0; i < len(keys); i++`, with i counted from 1
FindLoop(currentData, keys, i, ord) ==
    IF i > Len(keys) THEN currentData
    ELSE
    LET key == keys[i]
        \* strings.Join(keys[i+1:], ".") and strings.Join(keys[i+2:], ".")
        rest1 == Join(SubSeq(keys, i + 1, Len(keys)), ".")
        rest2 == Join(SubSeq(keys, i + 2, Len(keys)), ".")
        after == SubSeq(key, IndexStarDot(key) + 3, Len(key))
    IN
    IF IsSlice(currentData) THEN
        LET arrData == currentData.e IN
        IF key = <<"*">> THEN Broadcast(arrData, rest1, ord, <<>>)
        ELSE IF MatchStarDotDigits(key) THEN
            LET index == Atoi(after).n IN
            IF index >= Len(arrData) THEN Nil
            ELSE IF index < 0 THEN FindLoop(NilSlice, keys, i + 2, ord)
            ELSE IF i + 1 > Len(keys) THEN Panic("slice bounds out of range")
            ELSE LET r == Broadcast(<<arrData[index + 1]>>, rest2, ord, <<>>)
                 IN  IF IsPanic(r) THEN r ELSE FindLoop(r, keys, i + 2, ord)
        ELSE
            LET index == Atoi(key).n IN
            IF index >= Len(arrData) THEN IndexMiss
            ELSE IF index < 0 THEN Panic("index out of range")
            ELSE IF IsNil(arrData[index + 1]) THEN IndexMiss
            ELSE FindLoop(arrData[index + 1], keys, i + 1, ord)
    ELSE IF IsMap(currentData) THEN
        IF key = <<"*">> THEN
            Broadcast(RangeValues(currentData, ord), rest1, ord, <<>>)
        ELSE IF MatchStarDotNotStar(key) THEN
            LET vals == RangeValues(currentData, ord) IN
            IF Len(vals) > 0 /\ i + 1 > Len(keys)
            THEN Panic("slice bounds out of range")
            ELSE LET r == BroadcastByObjKey(vals, rest2, ord, after, <<>>)
                 IN  IF IsPanic(r) THEN r ELSE FindLoop(r, keys, i + 2, ord)
        ELSE
            IF IsNil(MapGet(currentData, key)) THEN KeyMiss
            ELSE FindLoop(MapGet(currentData, key), keys, i + 1, ord)
    ELSE Nil

FindDataByAccessKey(data, accessKey, ord) ==
    FindLoop(data, Split(accessKey, "."), 1, ord)

-----------------------------------------------------------------------------
(* Inputs of the evaluator *)

\* the longest sequence in a data tree
MaxSeqLen == 2
\* the most segments in a key, after its optional leading p
MaxKeySegs == 2

SeqsUpTo(S, n) == UNION {[1..m -> S] : m \in 0..n}

kP == <<"p">>
kK == <<"k">>
kJ == <<"j">>
vX == Str(<<"x">>)
vY == Str(<<"y">>)

\* the elements of the data sequences: null, a scalar, and mappings that
\* hold k, lack k, store null under k, or store a sequence under k
DataElems ==
    { Nil, vX,
      Map(kK :> vX),
      Map(kK :> Nil @@ kJ :> vX),
      Map(kJ :> vY),
      Map(kK :> Slice(<<vX, vY>>)) }

DataSeqs == {Slice(es) : es \in SeqsUpTo(DataElems, MaxSeqLen)}

\* a data tree: an element, a sequence of elements, or a mapping that
\* holds such a sequence under p
DataTrees == DataElems \cup DataSeqs \cup {Map(kP :> q) : q \in DataSeqs}

\* the segments of an access key: the wildcard, an index, a negative
\* integer, a property name and the empty segment
KeySegs == {<<"*">>, <<"1">>, <<"-", "1">>, kK, <<>>}

KeyTails == {Join(segs, ".") : segs \in SeqsUpTo(KeySegs, MaxKeySegs) \ {<<>>}}

AccessKeys == KeyTails \cup {kP} \cup {kP \o <<".">> \o tail : tail \in KeyTails}

\* the enumeration orders of a mapping's keys
MapOrders == {<<kP, kK, kJ>>, <<kP, kJ, kK>>}

NoHelper == [t |-> "none"]

InitEval ==
    /\ raw = NoHelper
    /\ visited = {}
    /\ accessKeys = <<>>
    /\ heap = 0
    /\ calls = 0
    /\ op = "input"
    /\ arg \in [data : DataTrees, accessKey : AccessKeys]
    /\ ret = NoHelper
    /\ prev = NoHelper

CallFindDataByAccessKey ==
    /\ op = "input"
    /\ \E ord \in MapOrders :
           ret' = FindDataByAccessKey(arg.data, arg.accessKey, ord)
    /\ op' = "FindDataByAccessKey"
    /\ calls' = calls + 1
    /\ UNCHANGED <<raw, visited, accessKeys, heap, arg, prev>>

NextEval == CallFindDataByAccessKey

SpecEval == InitEval /\ [][NextEval]_vars

-----------------------------------------------------------------------------
(* Inputs with two wildcards: a sequence of outer elements, each holding   *)
(* (under k, or as itself) a sequence of inner elements, each holding a    *)
(* value under j                                                           *)

\* inner sequences: empty, every element with j, one element lacking j,
\* one element with null under j
InnerSeqs ==
    { Slice(<<>>),
      Slice(<<Map(kJ :> vX)>>),
      Slice(<<Map(kJ :> vX), Map(kJ :> vY)>>),
      Slice(<<Map(kK :> vX), Map(kJ :> vX)>>),
      Slice(<<Map(kJ :> Nil), Map(kJ :> vY)>>) }

\* outer elements that hold the inner sequence under k; one lacks k, one
\* is null
KeyedOuterElems ==
    {Map(kK :> inner) : inner \in InnerSeqs} \cup {Map(kJ :> vX), Nil}

NestedTrees ==
    {Slice(es) : es \in SeqsUpTo(KeyedOuterElems, MaxSeqLen)}
    \cup {Map(kP :> Slice(es)) : es \in SeqsUpTo(KeyedOuterElems, MaxSeqLen)}
    \cup {Slice(es) : es \in SeqsUpTo(InnerSeqs, MaxSeqLen)}

TwoStarKeys ==
    { <<"p", ".", "*", ".", "k", ".", "*", ".", "j">>,
      <<"*", ".", "k", ".", "*", ".", "j">>,
      <<"*", ".", "*", ".", "j">> }

InitStar ==
    /\ raw = NoHelper
    /\ visited = {}
    /\ accessKeys = <<>>
    /\ heap = 0
    /\ calls = 0
    /\ op = "input"
    /\ arg \in [data : NestedTrees, accessKey : TwoStarKeys]
    /\ ret = NoHelper
    /\ prev = NoHelper

SpecStar == InitStar /\ [][NextEval]_vars

-----------------------------------------------------------------------------
(* Schema documents *)

kA == <<"a">>
kB == <<"b">>
kC == <<"c">>
dX == <<"X">>
dY == <<"Y">>
dA == <<"A">>
dB == <<"B">>
dR == <<"R">>

TString == Map(sType :> Str(sString))
TNumber == Map(sType :> Str(sNumber))
Object(props) == Map(sType :> Str(sObject) @@ sProperties :> Map(props))
Array(items) == Map(sType :> Str(sArray) @@ sItems :> items)
RefTo(def) == Map(sRef :> Str(<<"#", "/">> \o sDefs \o <<"/">> \o def))
WithDefs(defs, schema) == Map(sDefs :> Map(defs) @@ schema.m)
RawJsonTree == Map(sType :> Str(sObject) @@ sWidget :> Str(sRawJsonTree))

\* the first schema of TestGetSchemaMapByPointer: foo a string, bar a
\* positional array of a number and an object holding baz
DocTuple ==
    Object(kA :> TString
        @@ kB :> Array(Slice(<<TNumber, Object(kC :> TString)>>)))

\* the tuple array of the specification, as the document root
DocTupleRoot == Array(Slice(<<TNumber, Object(kC :> TString)>>))

\* the second schema of the tests: a property that is a $ref to an opaque
\* object, and a homogeneous array whose items is a $ref to an object
DocRefs ==
    WithDefs(dX :> Object(kA :> Array(TString) @@ kC :> TString)
          @@ dR :> RawJsonTree,
             Object(kA :> RefTo(dR) @@ kB :> Array(RefTo(dX)) @@ kC :> TString))

\* a chain of two $refs, one definition used at three places, and a
\* positional array holding a $ref
DocChain ==
    WithDefs(dX :> Object(kC :> TString) @@ dY :> RefTo(dX),
             Object(kA :> RefTo(dY) @@ kB :> RefTo(dX)
                 @@ kC :> Array(Slice(<<RefTo(dX), TString>>))))

\* nested objects, the innermost one holding a $ref
DocNested ==
    WithDefs(dX :> TString,
             Object(kA :> Object(kB :> Object(kC :> TString) @@ kC :> RefTo(dX))
                 @@ kC :> TNumber))

\* a cyclic chain: A's $ref targets B and B's $ref targets A
DocCycle ==
    WithDefs(dA :> RefTo(dB) @@ dB :> RefTo(dA),
             Object(kA :> RefTo(dA) @@ kC :> TString))

\* one definition used by two sibling properties and by the items of a
\* homogeneous array
DocShared ==
    WithDefs(dX :> Object(kC :> TString),
             Object(kA :> RefTo(dX) @@ kB :> RefTo(dX)
                 @@ kC :> Array(RefTo(dX))))

AcyclicDocs ==
    {DocTuple, DocTupleRoot, DocRefs, DocChain, DocNested, DocShared}
Docs == AcyclicDocs \cup {DocCycle}

\* an object that is an opaque leaf although it declares properties
Opaque(props) == Map(RawJsonTree.m @@ sProperties :> Map(props))

\* opaque leaves as a property behind a $ref, as the items of a homogeneous
\* array, and in a positional array
DocOpaque ==
    WithDefs(dR :> Opaque(kC :> TString @@ kA :> Array(TString)),
             Object(kA :> RefTo(dR)
                 @@ kB :> Array(Opaque(kA :> TString))
                 @@ kC :> Array(Slice(<<Opaque(kB :> TNumber), TString>>))))

\* the document root is an opaque leaf; is a scalar
DocOpaqueRoot == Opaque(kA :> TString)
DocScalarRoot == TString

\* homogeneous arrays of scalars, of arrays and of objects
DocArrays ==
    Object(kA :> Array(TString)
        @@ kB :> Array(Array(TNumber))
        @@ kC :> Array(Object(kC :> TString @@ kA :> Array(TString))))

\* a homogeneous array as the document root: of objects, of scalars
DocArrayRoot == Array(Object(kC :> TString))
DocScalarsRoot == Array(TString)

\* documents whose walk emits no key: an object with an empty properties
\* mapping, and an array node with no items
DocEmptyObject == Object(<<>>)
DocNoItems == Map(sType :> Str(sArray))

\* an object with properties that emit no key next to one that does
DocSparse ==
    Object(kA :> Object(<<>>) @@ kB :> Map(sType :> Str(sArray)) @@ kC :> TString)

\* a document whose root is itself a $ref node, as Reflect produces it
DocRootRef ==
    Map(sRef :> Str(<<"#", "/">> \o sDefs \o <<"/">> \o dX)
     @@ sDefs :> Map(dX :> Object(kA :> TString @@ kC :> Array(TNumber))))

RootRefDocs == {DocRootRef}

GenDocs ==
    {DocOpaque, DocOpaqueRoot, DocScalarRoot, DocArrays, DocArrayRoot,
     DocScalarsRoot, DocEmptyObject, DocNoItems, DocSparse}

-----------------------------------------------------------------------------
(* Inputs of the navigator *)

\* the most segments in a pointer
MaxPtrSegs == 3

PtrSegs == {<<>>, kA, kB, kC, <<"0">>, <<"1">>, <<"2">>, <<"-">>, <<"-", "1">>}
PtrPrefixes == {<<>>, <<"#">>, <<"/">>, <<"#", "/">>}

Pointers ==
    {prefix \o Join(segs, "/") :
        prefix \in PtrPrefixes, segs \in SeqsUpTo(PtrSegs, MaxPtrSegs)}

\* the pointers of a second resolution, against the node the first returned
StepPointers == {<<"/">> \o seg : seg \in PtrSegs \ {<<>>}}

-----------------------------------------------------------------------------
(* A program that resolves one pointer on a new helper and then resolves   *)
(* a second pointer against the node returned, either with the same        *)
(* helper's method or with the package function                            *)

InitNav ==
    /\ raw \in Docs \cup RootRefDocs
    /\ visited = {}
    /\ accessKeys = <<>>
    /\ heap = 0
    /\ calls = 0
    /\ op = "input"
    /\ arg \in [pointer : Pointers]
    /\ ret = NoHelper
    /\ prev = NoHelper

\* t := NewSchemaHelper(doc); t.GetSchemaMapByPointer(t.raw, pointer)
ResolvePointer ==
    /\ op = "input"
    /\ \E out \in {HelperGetSchemaMapByPointer(
                       NewSchemaHelper(raw), raw, arg.pointer)} :
           /\ ret' = out.res
           /\ visited' = out.visited
           /\ heap' = out.heap
    /\ op' = "GetSchemaMapByPointer"
    /\ calls' = calls + 1
    /\ UNCHANGED <<raw, accessKeys, arg, prev>>

\* t.GetSchemaMapByPointer(node, pointer2), node the schema returned before
ResolveOnSameHelper ==
    /\ op = "GetSchemaMapByPointer"
    /\ IsOk(ret)
    /\ \E p2 \in StepPointers :
        \E out \in {HelperGetSchemaMapByPointer(
                        Helper(raw, visited, heap), ret.node, p2)} :
            /\ ret' = out.res
            /\ visited' = out.visited
            /\ heap' = out.heap
            /\ arg' = [pointer |-> arg.pointer, pointer2 |-> p2]
    /\ prev' = ret
    /\ op' = "t.GetSchemaMapByPointer(node)"
    /\ calls' = calls + 1
    /\ UNCHANGED <<raw, accessKeys>>

\* GetSchemaMapByPointer(node, pointer2): the package function makes the
\* node the document of a new helper
ResolveOnNewHelper ==
    /\ op = "GetSchemaMapByPointer"
    /\ IsOk(ret)
    /\ \E p2 \in StepPointers :
        /\ ret' = GetSchemaMapByPointer(ret.node, p2)
        /\ arg' = [pointer |-> arg.pointer, pointer2 |-> p2]
    /\ prev' = ret
    /\ op' = "GetSchemaMapByPointer(node)"
    /\ calls' = calls + 1
    /\ UNCHANGED <<raw, visited, accessKeys, heap>>

NextNav == ResolvePointer \/ ResolveOnSameHelper \/ ResolveOnNewHelper

SpecNav == InitNav /\ [][NextNav]_vars

-----------------------------------------------------------------------------
(* A program that makes a helper for a document and resolves one ref *)

\* the most segments in a ref
MaxRefSegs == 3

sTitle == <<"t", "i", "t", "l", "e">>

\* a document that stores a string under "title" and a list under "b"
DocTitled ==
    Map(DocChain.m @@ sTitle :> Str(<<"x">>) @@ kB :> Slice(<<TString>>))

RefDocs == {DocRefs, DocChain, DocTitled}

RefSegs == {<<>>, sDefs, sProperties, sTitle, sType, dX, kA, kB}
RefPrefixes == {<<>>, <<"#">>, <<"/">>, <<"#", "/">>}

Refs ==
    {prefix \o Join(segs, "/") :
        prefix \in RefPrefixes, segs \in SeqsUpTo(RefSegs, MaxRefSegs)}

InitRef ==
    /\ raw \in RefDocs
    /\ visited = {}
    /\ accessKeys = <<>>
    /\ heap = 0
    /\ calls = 0
    /\ op = "input"
    /\ arg \in [ref : Refs]
    /\ ret = NoHelper
    /\ prev = NoHelper

\* t := NewSchemaHelper(doc); t.ResolveRef(ref)
CallResolveRef ==
    /\ op = "input"
    /\ ret' = ResolveRef(NewSchemaHelper(raw).raw, arg.ref)
    /\ op' = "ResolveRef"
    /\ calls' = calls + 1
    /\ UNCHANGED <<raw, visited, accessKeys, heap, arg, prev>>

NextRef == CallResolveRef

SpecRef == InitRef /\ [][NextRef]_vars

-----------------------------------------------------------------------------
(* One SchemaHelper, made by NewSchemaHelper for a document, on which      *)
(* pointers are resolved and access keys are generated, call after call    *)

\* the most calls made on one helper
MaxCalls == 3

HelperPointers ==
    { <<"/", "a">>, <<"/", "b">>, <<"/", "c">>,
      <<"/", "a", "/", "c">>, <<"/", "b", "/", "0">>, <<"/", "c", "/", "0">> }

\* the enumeration orders of a properties mapping
PropOrders ==
    { <<kA, kB, kC>>, <<kA, kC, kB>>, <<kB, kA, kC>>,
      <<kB, kC, kA>>, <<kC, kA, kB>>, <<kC, kB, kA>> }

Keys(list) == [t |-> "keys", keys |-> list]

Init ==
    /\ raw \in Docs \cup GenDocs
    /\ visited = {}
    /\ accessKeys = <<>>
    /\ heap = 0
    /\ calls = 0
    /\ op = "NewSchemaHelper"
    /\ arg = NoHelper
    /\ ret = NoHelper
    /\ prev = NoHelper

\* there is a helper, and a runtime failure ends the process
Running == IsMap(raw) /\ calls < MaxCalls /\ ~IsPanic(ret)

\* c.GetSchemaMapByPointer(c.raw, pointer)
CallGetSchemaMapByPointer ==
    /\ Running
    /\ \E pointer \in HelperPointers :
        \E out \in {HelperGetSchemaMapByPointer(
                        Helper(raw, visited, heap), raw, pointer)} :
            /\ ret' = out.res
            /\ visited' = out.visited
            /\ heap' = out.heap
            /\ arg' = [pointer |-> pointer]
    /\ op' = "GetSchemaMapByPointer"
    /\ prev' = ret
    /\ calls' = calls + 1
    /\ UNCHANGED <<raw, accessKeys>>

\* a GenAccessKeys that removes "$defs" from the document it has walked
CallGenAccessKeysDroppingDefs ==
    /\ Running
    /\ \E ord \in PropOrders :
        \E w \in {GenAccessKeys(raw, Walk(visited, heap, accessKeys, Nil), ord)} :
            /\ ret' = IF IsCrashed(w) THEN w.crash ELSE Keys(w.accessKeys)
            /\ visited' = w.visited
            /\ heap' = w.heap
            /\ accessKeys' = w.accessKeys
    /\ op' = "GenAccessKeys"
    /\ arg' = NoHelper
    /\ prev' = ret
    /\ calls' = calls + 1
    /\ raw' = Map([key \in DOMAIN raw.m \ {sDefs} |-> raw.m[key]])

\* c.GenAccessKeys()
CallGenAccessKeys ==
    /\ Running
    /\ \E ord \in PropOrders :
        \E w \in {GenAccessKeys(raw, Walk(visited, heap, accessKeys, Nil), ord)} :
            /\ ret' = IF IsCrashed(w) THEN w.crash ELSE Keys(w.accessKeys)
            /\ visited' = w.visited
            /\ heap' = w.heap
            /\ accessKeys' = w.accessKeys
    /\ op' = "GenAccessKeys"
    /\ arg' = NoHelper
    /\ prev' = ret
    /\ calls' = calls + 1
    /\ UNCHANGED raw

Next == CallGetSchemaMapByPointer \/ CallGenAccessKeys

Spec == Init /\ [][Next]_vars

-----------------------------------------------------------------------------
(* The three traversals together: a helper for a schema document, or a     *)
(* data tree and an access key                                             *)

InitAll == Init \/ InitEval

NextAll == Next \/ NextEval

SpecAll == InitAll /\ [][NextAll]_vars

-----------------------------------------------------------------------------
(* The same helper when its document can be replaced with SetSchema *)

\* StructToMap, helper.go 369-380, of a value that is not a mapping: a
\* string is marshalled to a JSON string, which does not unmarshal into a
\* map[string]any
StructToMap(input) ==
    IF IsStr(input) \/ IsSlice(input)
    THEN Err("json: cannot unmarshal into Go value of type map[string]interface {}")
    ELSE Ok(input)

\* SetSchema, helper.go 36-47: what it leaves in c.raw and what it returns
SetSchema(r, input) ==
    IF IsMap(input) THEN [raw |-> input, err |-> Nil]
    ELSE IF IsErr(StructToMap(input))
    THEN [raw |-> r, err |-> StructToMap(input)]
    ELSE [raw |-> StructToMap(input).node, err |-> Nil]

\* the values handed to SetSchema: documents, and a string
SetSchemaInputs == {DocTuple, DocArrays, DocEmptyObject, DocCycle, vX}

\* c.SetSchema(input)
CallSetSchema ==
    /\ Running
    /\ \E input \in SetSchemaInputs :
        /\ raw' = SetSchema(raw, input).raw
        /\ ret' = SetSchema(raw, input).err
        /\ arg' = [input |-> input]
    /\ op' = "SetSchema"
    /\ prev' = ret
    /\ calls' = calls + 1
    /\ UNCHANGED <<visited, accessKeys, heap>>

NextMemo == Next \/ CallSetSchema

SpecMemo == Init /\ [][NextMemo]_vars

-----------------------------------------------------------------------------
(* Claims about the evaluator, checked under SpecEval *)

Evaluated == op = "FindDataByAccessKey"

\* a decimal non-negative integer
IsDecimal(seg) == Len(seg) > 0 /\ \A n \in 1..Len(seg) : IsDigit(seg[n])

\* Where a plain descent stops: it follows an in-range decimal index into a
\* non-null element of a sequence and a literal key to a non-null value of
\* a mapping, and stops at the first segment that does neither.
RECURSIVE WalkStop(_, _, _)
WalkStop(cur, keys, i) ==
    IF i > Len(keys) THEN [at |-> i, node |-> cur]
    ELSE IF /\ IsSlice(cur) /\ IsDecimal(keys[i])
            /\ Atoi(keys[i]).n < Len(cur.e)
            /\ ~IsNil(cur.e[Atoi(keys[i]).n + 1])
    THEN WalkStop(cur.e[Atoi(keys[i]).n + 1], keys, i + 1)
    ELSE IF /\ IsMap(cur) /\ keys[i] # <<"*">>
            /\ ~IsNil(MapGet(cur, keys[i]))
    THEN WalkStop(MapGet(cur, keys[i]), keys, i + 1)
    ELSE [at |-> i, node |-> cur]

ArgKeys == Split(arg.accessKey, ".")
ArgStop == WalkStop(arg.data, ArgKeys, 1)

\* the descent stops at a decimal index applied to a sequence: the index is
\* past the end, or the element there is null
IndexMissCase ==
    /\ ArgStop.at <= Len(ArgKeys)
    /\ IsSlice(ArgStop.node)
    /\ IsDecimal(ArgKeys[ArgStop.at])

\* the descent stops at a literal segment applied to a mapping: the key is
\* lacking, or null is stored under it
KeyMissCase ==
    /\ ArgStop.at <= Len(ArgKeys)
    /\ IsMap(ArgStop.node)
    /\ ArgKeys[ArgStop.at] # <<"*">>

\* C3: the not-found asymmetry. A decimal index applied to a sequence that
\* is past the end, or whose element is null, makes the result the empty
\* non-nil sequence; a literal segment applied to a mapping that lacks the
\* key, or stores null under it, makes the result absent (nil); the two
\* results differ.
C3_NotFoundAsymmetry ==
    Evaluated =>
        /\ IndexMissCase => ret = Slice(<<>>)
        /\ KeyMissCase => ret = Nil
        /\ (IndexMissCase \/ KeyMissCase) => (IsSlice(ret) # IsNil(ret))

\* the example of the tests: pets.2.type on a shorter array, here p.1.k on a
\* one-element array
C3_Witness ==
    /\ Evaluated
    /\ arg.data = Map(kP :> Slice(<<Map(kK :> vX)>>))
    /\ arg.accessKey = <<"p", ".", "1", ".", "k">>
    /\ IndexMissCase
    /\ ret = Slice(<<>>)

\* The sequence a key of the form [p.]*.name is applied to, when the data
\* holds one there and all its elements are mappings.
StarTarget ==
    IF Len(ArgKeys) = 2 /\ IsSlice(arg.data) THEN arg.data
    ELSE IF /\ Len(ArgKeys) = 3 /\ IsMap(arg.data)
            /\ ArgKeys[1] # <<"*">> /\ IsSlice(MapGet(arg.data, ArgKeys[1]))
    THEN MapGet(arg.data, ArgKeys[1])
    ELSE Nil

StarOverMappings ==
    /\ Len(ArgKeys) \in {2, 3}
    /\ ArgKeys[Len(ArgKeys) - 1] = <<"*">>
    /\ ArgKeys[Len(ArgKeys)] # <<"*">>
    /\ IsSlice(StarTarget)
    /\ \A n \in 1..Len(StarTarget.e) : IsMap(StarTarget.e[n])

\* the non-null values stored under `name` by the mappings es, in order
RECURSIVE NamedValues(_, _)
NamedValues(es, name) ==
    IF Len(es) = 0 THEN <<>>
    ELSE (IF IsNil(MapGet(es[1], name)) THEN <<>> ELSE <<MapGet(es[1], name)>>)
         \o NamedValues(Tail(es), name)

\* the same list with its sequence-valued members spliced one level
RECURSIVE SpliceOneLevel(_)
SpliceOneLevel(vs) ==
    IF Len(vs) = 0 THEN <<>>
    ELSE (IF IsSlice(vs[1]) THEN vs[1].e ELSE <<vs[1]>>)
         \o SpliceOneLevel(Tail(vs))

\* C4 as stated: "p.*.k" over a sequence of mappings returns the list of the
\* k-values of exactly the elements holding a non-null k, in element order,
\* and an empty sequence (not absent) when no element has k.
C4_ListOfValues ==
    (Evaluated /\ StarOverMappings) =>
        /\ IsSlice(ret)
        /\ ret.e = NamedValues(StarTarget.e, ArgKeys[Len(ArgKeys)])

\* C4 as amended: the same, but a k-value that is itself a sequence
\* contributes its elements, spliced one level, instead of itself.
C4_ListOfValuesSpliced ==
    (Evaluated /\ StarOverMappings) =>
        /\ IsSlice(ret)
        /\ ret.e = SpliceOneLevel(
                       NamedValues(StarTarget.e, ArgKeys[Len(ArgKeys)]))

\* one element holds a sequence under k, the other lacks k
C4_Witness ==
    /\ Evaluated
    /\ StarOverMappings
    /\ arg.data = Map(kP :> Slice(<<Map(kK :> Slice(<<vX, vY>>)),
                                    Map(kJ :> vY)>>))
    /\ arg.accessKey = <<"p", ".", "*", ".", "k">>
    /\ ret = Slice(<<vX, vY>>)

\* C5: the evaluator has no error channel: every call returns a value, a
\* sequence or absent, and never ends in a runtime failure.
C5_NeverAborts == Evaluated => ~IsPanic(ret)

\* the members of a list that are not null
NonNull(vs) == SelectSeq(vs, LAMBDA v : ~IsNil(v))

\* the key ends with the segment `*`, and the plain descent through the
\* segments before it ends at a sequence
TrailingStarOnSequence ==
    /\ ArgKeys[Len(ArgKeys)] = <<"*">>
    /\ ArgStop.at = Len(ArgKeys)
    /\ IsSlice(ArgStop.node)

\* C17: a key whose last segment is `*`, applied to a sequence, returns the
\* non-null elements of the sequence in order, those that are sequences
\* spliced one level
C17_TrailingStar ==
    (Evaluated /\ TrailingStarOnSequence) =>
        /\ IsSlice(ret)
        /\ ret.e = SpliceOneLevel(NonNull(ArgStop.node.e))

-----------------------------------------------------------------------------
(* Claims about the navigator, checked under SpecNav *)

Resolved == op = "GetSchemaMapByPointer"

\* the value a path of keys leads to in a tree of mappings; nil when a key
\* is lacking
RECURSIVE Lookup(_, _)
Lookup(v, path) ==
    IF Len(path) = 0 THEN v
    ELSE IF IsMap(v) /\ MapHas(v, path[1]) THEN Lookup(v.m[path[1]], Tail(path))
    ELSE Nil

\* the node "#/x/y" names in the document
RefTarget(doc, ref) == Lookup(doc, Split(SubSeq(ref, 3, Len(ref)), "/"))

IsRefNode(v) == IsMap(v) /\ MapHas(v, sRef)

\* the node at the end of the chain of $refs that starts at `node`, in a
\* document whose chains are not cyclic
RECURSIVE FollowRefs(_, _)
FollowRefs(doc, node) ==
    IF IsRefNode(node) THEN FollowRefs(doc, RefTarget(doc, node.m[sRef].s))
    ELSE node

\* the tree with every $ref node replaced by the node it refers to
RECURSIVE Inlined(_, _)
Inlined(doc, v) ==
    IF IsRefNode(v) THEN Inlined(doc, RefTarget(doc, v.m[sRef].s))
    ELSE IF IsMap(v) THEN Map([key \in DOMAIN v.m |-> Inlined(doc, v.m[key])])
    ELSE IF IsSlice(v) THEN Slice([n \in 1..Len(v.e) |-> Inlined(doc, v.e[n])])
    ELSE v

\* whether a $ref node occurs in the tree
RECURSIVE HoldsRef(_)
HoldsRef(v) ==
    IF IsRefNode(v) THEN TRUE
    ELSE IF IsMap(v) THEN \E key \in DOMAIN v.m : HoldsRef(v.m[key])
    ELSE IF IsSlice(v) THEN \E n \in 1..Len(v.e) : HoldsRef(v.e[n])
    ELSE FALSE

TypeIs(node, typ) == IsMap(node) /\ MapGet(node, sType) = Str(typ)

\* the same outcome: both fail the same way, or both return the same node
SameOutcome(r1, r2) == r1.t = r2.t /\ (IsOk(r1) => r1.node = r2.node)

\* the segments of the pointer resolved first
ArgParts == PointerParts(arg.pointer)
HasParts == Len(arg.pointer) > 0 /\ arg.pointer \notin {<<"#">>, <<"/">>}

\* the node segment k is applied to
Parent(k) ==
    PointerLoop(NewSchemaHelper(raw), raw, SubSeq(ArgParts, 1, k - 1)).res

\* what resolving the segments after k gives, from `node` on
Onward(node, k) ==
    PointerLoop(NewSchemaHelper(raw), node,
                SubSeq(ArgParts, k + 1, Len(ArgParts))).res

ItemsOf(k) == MapGet(Parent(k).node, sItems)

\* segment k is applied to an array node
AtArray(k) == IsOk(Parent(k)) /\ TypeIs(Parent(k).node, sArray)
\* ... whose items is a positional list
AtPositional(k) == AtArray(k) /\ IsSlice(ItemsOf(k))
\* ... whose items is a single schema
AtHomogeneous(k) == AtArray(k) /\ IsMap(ItemsOf(k))

\* C6: on an array whose items is a positional list of n schemas, an index
\* segment i < n resolves to the dereferenced items[i], from which the
\* further segments are resolved, and an index i >= n is an error.
C6_PositionalIndex ==
    (Resolved /\ HasParts /\ raw \in AcyclicDocs) =>
        \A k \in 1..Len(ArgParts) :
            (AtPositional(k) /\ IsDecimal(ArgParts[k])) =>
                LET i == Atoi(ArgParts[k]).n
                    items == ItemsOf(k).e
                IN  IF i >= Len(items) THEN IsErr(ret) /\ IsNil(ret.node)
                    ELSE ret = Onward(FollowRefs(raw, items[i + 1]), k)

\* /1/c on the tuple array returns property c of items[1]
C6_Witness ==
    /\ Resolved
    /\ raw = DocTupleRoot
    /\ arg.pointer = <<"/", "1", "/", "c">>
    /\ AtPositional(1)
    /\ ret = Ok(TString)

\* segment k is a decimal index within the positional list it is applied to
InRange(k) ==
    IsDecimal(ArgParts[k]) /\ Atoi(ArgParts[k]).n < Len(ItemsOf(k).e)

\* C18: at an array whose items is a positional list, every segment that is
\* not a non-negative integer within range (text that is no number, a
\* negative integer, an index >= len(items)) gives an error result, and
\* the call does not abort
C18_BadIndexRejected ==
    (Resolved /\ HasParts /\ raw \in AcyclicDocs) =>
        \A k \in 1..Len(ArgParts) :
            (AtPositional(k) /\ ~InRange(k)) => IsErr(ret) /\ IsNil(ret.node)

\* segment k is applied to a node that is no container: its type is
\* neither object nor array, or it has no type
AtNoContainer(k) ==
    /\ IsOk(Parent(k))
    /\ IsMap(Parent(k).node)
    /\ ~TypeIs(Parent(k).node, sObject)
    /\ ~TypeIs(Parent(k).node, sArray)

\* segment k is applied to an object node and is no key of its properties
AtLackingProperty(k) ==
    /\ IsOk(Parent(k))
    /\ TypeIs(Parent(k).node, sObject)
    /\ ~(/\ IsMap(MapGet(Parent(k).node, sProperties))
         /\ MapHas(Parent(k).node.m[sProperties], ArgParts[k]))

\* C24: a segment applied to a node whose type is neither object nor array,
\* or that has no type, gives an error and a nil schema whatever the
\* segment is, and so does a segment that is no key of the properties of
\* the object it is applied to
C24_NoContainerIsError ==
    (Resolved /\ HasParts) =>
        \A k \in 1..Len(ArgParts) :
            (AtNoContainer(k) \/ AtLackingProperty(k)) =>
                IsErr(ret) /\ IsNil(ret.node)

\* /a/c on the document of the tuple: a is a string, and c is applied to it
C24_Witness ==
    /\ Resolved
    /\ raw = DocTuple
    /\ arg.pointer = <<"/", "a", "/", "c">>
    /\ AtNoContainer(2)
    /\ Parent(2) = Ok(TString)
    /\ IsErr(ret)

\* the pointer names one property of the definition the root's $ref names
RootRefProperty ==
    /\ IsRefNode(raw)
    /\ Len(ArgParts) = 1
    /\ IsMap(MapGet(FollowRefs(raw, raw), sProperties))
    /\ MapHas(FollowRefs(raw, raw).m[sProperties], ArgParts[1])

\* C19: when the root schema is itself a $ref node, the pointer "/p"
\* resolves to property p of the definition the $ref names
C19_RootDereferenced ==
    (Resolved /\ HasParts /\ raw \in RootRefDocs /\ RootRefProperty) =>
        ret = Ok(FollowRefs(raw,
                     FollowRefs(raw, raw).m[sProperties].m[ArgParts[1]]))

\* segment k is "-", applied to an array node
DashAt(k) == ArgParts[k] = <<"-">> /\ AtArray(k)

C8_MalformedRejected ==
    Resolved =>
        /\ arg.pointer = <<>> => IsErr(ret) /\ IsNil(ret.node)
        /\ (HasParts /\ \E k \in 1..Len(ArgParts) : ArgParts[k] = <<>>)
               => IsErr(ret) /\ IsNil(ret.node)
        /\ arg.pointer \in {<<"#">>, <<"/">>} => ret = Ok(raw)

\* C9: ref transparency. In a document without cyclic $refs, a pointer
\* resolves to the node it resolves to in the document with every $ref
\* inlined, and fails when it fails there; the node returned is never a
\* $ref node.
C9_RefTransparency ==
    (Resolved /\ raw \in AcyclicDocs) =>
        LET inlined == GetSchemaMapByPointer(Inlined(raw, raw), arg.pointer)
        IN  /\ ret.t = inlined.t
            /\ IsOk(ret) => /\ Inlined(raw, ret.node) = inlined.node
                            /\ HasParts => ~IsRefNode(ret.node)

\* /a ends at a $ref to Y, whose $ref names X: the pointer returns X
C9_Witness ==
    /\ Resolved
    /\ raw = DocChain
    /\ arg.pointer = <<"/", "a">>
    /\ IsRefNode(Lookup(raw, <<sProperties, kA>>))
    /\ ret = Ok(Object(kC :> TString))

\* the pointer resolved first names at least one segment and no empty one
WellFormedFirst ==
    /\ HasParts
    /\ HasPrefix(arg.pointer, <<"/">>) \/ HasPrefix(arg.pointer, <<"#", "/">>)
    /\ \A k \in 1..Len(ArgParts) : ArgParts[k] # <<>>

\* the two pointers as one
Composed == arg.pointer \o arg.pointer2

\* a resolution in two steps through object nodes
TwoSteps(how) ==
    /\ op = how
    /\ WellFormedFirst
    /\ TypeIs(raw, sObject)
    /\ TypeIs(prev.node, sObject)

\* a first step that fails makes every longer pointer fail too
FirstFailureStays ==
    (Resolved /\ WellFormedFirst /\ TypeIs(raw, sObject) /\ ~IsOk(ret)) =>
        \A p2 \in StepPointers :
            ~IsOk(GetSchemaMapByPointer(raw, arg.pointer \o p2))

\* C10 as stated: resolving "/a/b" from the root equals resolving "/a" from
\* the root and then "/b" against the sub-node returned, and the one fails
\* exactly when the other does.
C10_Composition ==
    /\ FirstFailureStays
    /\ TwoSteps("GetSchemaMapByPointer(node)") =>
           SameOutcome(ret, GetSchemaMapByPointer(raw, Composed))

\* C10 as amended: the same, when the second step is resolved by the method
\* of the same helper, whose document is still the root; with the package
\* function, which makes the sub-node the document, when the sub-node holds
\* no $ref.
C10_CompositionOnSameHelper ==
    /\ FirstFailureStays
    /\ TwoSteps("t.GetSchemaMapByPointer(node)") =>
           SameOutcome(ret, GetSchemaMapByPointer(raw, Composed))
    /\ (TwoSteps("GetSchemaMapByPointer(node)") /\ ~HoldsRef(prev.node)) =>
           SameOutcome(ret, GetSchemaMapByPointer(raw, Composed))

\* /a then /c on the same helper, c being a $ref into the root's $defs
C10_Witness ==
    /\ TwoSteps("t.GetSchemaMapByPointer(node)")
    /\ raw = DocNested
    /\ arg.pointer = <<"/", "a">>
    /\ arg.pointer2 = <<"/", "c">>
    /\ ret = Ok(TString)

-----------------------------------------------------------------------------
(* Claims about one helper used for several calls, checked under Spec *)

Circular == Err("circular reference detected in schema")

\* the pointer of the call goes through property a
ThroughA == SubSeq(arg.pointer, 1, 2) = <<"/", "a">>

\* C1: on the document whose $ref chain is cyclic, GetSchemaMapByPointer
\* through the property carrying the $ref ends with the circular-reference
\* error, and GenAccessKeys ends without a runtime failure
C1_CycleRejected ==
    raw = DocCycle =>
        /\ ~IsPanic(ret)
        /\ (op = "GetSchemaMapByPointer" /\ ThroughA) => ret = Circular

\* what a helper created for this one call answers
FreshPointer == GetSchemaMapByPointer(raw, arg.pointer)
FreshKeys ==
    { LET w == GenAccessKeys(raw, Walk({}, 0, <<>>, Nil), ord)
      IN  IF IsCrashed(w) THEN w.crash ELSE Keys(w.accessKeys) :
      ord \in PropOrders }

\* C2: on a document whose $ref graph is acyclic, whatever calls the helper
\* served before, no call returns the circular-reference error, a pointer
\* resolves to what it resolves to on a new helper, and the access keys are
\* the ones a new helper generates
C2_NoVisitedLeak ==
    raw \in AcyclicDocs =>
        /\ ret # Circular
        /\ op = "GetSchemaMapByPointer" => ret = FreshPointer
        /\ op = "GenAccessKeys" => ret \in FreshKeys

\* the second of two calls that dereference "#/$defs/X" resolves
C2_Witness ==
    /\ raw = DocChain
    /\ calls >= 2
    /\ op = "GetSchemaMapByPointer"
    /\ arg.pointer = <<"/", "b">>
    /\ ret = Ok(Object(kC :> TString))
    /\ prev = ret
    /\ heap >= 2

\* the $ref nodes of a tree: where each is, and what it refers to
RECURSIVE RefPlaces(_, _)
RefPlaces(v, path) ==
    IF IsRefNode(v) THEN {[at |-> path, ref |-> v.m[sRef].s]}
    ELSE IF IsMap(v)
    THEN UNION {RefPlaces(v.m[key], Append(path, key)) : key \in DOMAIN v.m}
    ELSE IF IsSlice(v)
    THEN UNION {RefPlaces(v.e[n], Append(path, Itoa(n - 1))) :
                   n \in 1..Len(v.e)}
    ELSE {}

\* two different nodes of the document refer to the same definition
SharedTarget(doc) ==
    \E p, q \in RefPlaces(doc, <<>>) : p.at # q.at /\ p.ref = q.ref

\* the document with every use of a definition replaced by a copy of it
Copied == Inlined(raw, raw)

\* C26: on an acyclic document in which two nodes refer to the same
\* definition, no call reports a circular reference; GenAccessKeys returns
\* the keys of the document in which every use holds its own copy of the
\* definition, and a pointer resolves as it does in that document
C26_SharedTargetNotCircular ==
    (raw \in AcyclicDocs /\ SharedTarget(raw) /\ calls > 0) =>
        /\ ret # Circular
        /\ op = "GenAccessKeys" =>
               \E ord \in PropOrders :
                   ret = Keys(GenAccessKeys(Copied, Walk({}, 0, <<>>, Nil),
                                            ord).accessKeys)
        /\ op = "GetSchemaMapByPointer" =>
               LET copy == GetSchemaMapByPointer(Copied, arg.pointer)
               IN  /\ ret.t = copy.t
                   /\ IsOk(ret) => Inlined(raw, ret.node) = copy.node

\* the keys of the definition under property a, under property b and under
\* the items of c, after a pointer through a was resolved on the helper
C26_Witness ==
    /\ raw = DocShared
    /\ op = "GenAccessKeys"
    /\ ret.t = "keys"
    /\ prev = Ok(TString)
    /\ {ret.keys[n] : n \in 1..Len(ret.keys)} =
           { kA \o <<".">> \o kC, kB \o <<".">> \o kC,
             kC \o <<".", "*", ".">> \o kC }

-----------------------------------------------------------------------------
(* Claims about the access keys, checked under Spec *)

\* the documents whose $ref chains end
EndingDocs == AcyclicDocs \cup GenDocs

\* a GenAccessKeys call has returned a list
Generated == op = "GenAccessKeys" /\ ret.t = "keys"

\* an object marked as an opaque leaf
MarkedOpaque(node) ==
    TypeIs(node, sObject) /\ MapGet(node, sWidget) = Str(sRawJsonTree)

\* the nodes of a document that have a path, each dereferenced, with their
\* paths: the root at "", a property at path.name, an element of a
\* positional items list at path.index, and the single items schema of an
\* array, when it is an object or an array, at path.*
RECURSIVE Places(_, _, _)
Places(doc, node, path) ==
    LET n == FollowRefs(doc, node)
        items == MapGet(n, sItems)
    IN  {[path |-> path, node |-> n]} \cup
        IF TypeIs(n, sObject)
        THEN IF MarkedOpaque(n) \/ ~IsMap(MapGet(n, sProperties)) THEN {}
             ELSE UNION {Places(doc, n.m[sProperties].m[name],
                                ChildPath(path, name)) :
                         name \in DOMAIN n.m[sProperties].m}
        ELSE IF TypeIs(n, sArray) /\ IsSlice(items)
        THEN UNION {Places(doc, items.e[k], ChildPath(path, Itoa(k - 1))) :
                    k \in 1..Len(items.e)}
        ELSE IF /\ TypeIs(n, sArray) /\ IsMap(items)
                /\ \/ TypeIs(FollowRefs(doc, items), sObject)
                   \/ TypeIs(FollowRefs(doc, items), sArray)
        THEN Places(doc, items, path \o <<".", "*">>)
        ELSE {}

\* how often a key occurs in a list, and the keys below a path
Occurrences(keys, key) == Cardinality({k \in 1..Len(keys) : keys[k] = key})
Below(keys, path) ==
    SelectSeq(keys, LAMBDA key : HasPrefix(key, path \o <<".">>))

OpaqueAlone(place) ==
    /\ Occurrences(ret.keys, place.path) = 1
    /\ Below(ret.keys, place.path) = <<>>

OpaquePlaces == {place \in Places(raw, raw, <<>>) : MarkedOpaque(place.node)}

\* C11 as stated: every opaque leaf, the document root included, gives
\* exactly one access key, its own path, and no key below it
C11_OpaqueLeaf ==
    (Generated /\ raw \in EndingDocs) =>
        \A place \in OpaquePlaces : OpaqueAlone(place)

\* C11: an opaque leaf at a path that is not empty gives exactly one access
\* key, its own path, and no key below it, whatever properties it declares
C11_OpaqueLeafBelowRoot ==
    (Generated /\ raw \in EndingDocs) =>
        \A place \in OpaquePlaces : place.path # <<>> => OpaqueAlone(place)

\* the opaque leaves of DocOpaque, each declaring properties, give the keys
\* a, b.* and c.0
C11_Witness ==
    /\ Generated
    /\ raw = DocOpaque
    /\ {place.path : place \in OpaquePlaces}
           = {kA, kB \o <<".", "*">>, kC \o <<".", "0">>}
    /\ \A place \in OpaquePlaces : MapHas(place.node, sProperties)
    /\ Len(ret.keys) = 4

\* the root is an object with a properties mapping and no opaque-leaf marker
ObjectRoot ==
    /\ TypeIs(raw, sObject)
    /\ ~MarkedOpaque(raw)
    /\ IsMap(MapGet(raw, sProperties))

RootProperties == raw.m[sProperties].m

\* the keys the walk emits for the schema of property `name`
EmittedFor(name) ==
    traverse(raw, Walk({}, 0, <<>>, Nil), RootProperties[name], name, 2,
             CHOOSE ord \in PropOrders : TRUE).accessKeys

EmittedCount(name) == Len(EmittedFor(name))

\* the sum of EmittedCount over a set of names
RECURSIVE EmittedSum(_)
EmittedSum(names) ==
    IF names = {} THEN 0
    ELSE LET name == CHOOSE x \in names : TRUE
         IN  EmittedCount(name) + EmittedSum(names \ {name})

IsScalar(node) ==
    IsMap(node) /\ ~MapHas(node, sRef)
        /\ ~TypeIs(node, sObject) /\ ~TypeIs(node, sArray)

\* C12: for a root object with N >= 0 properties and no opaque-leaf marker,
\* GenAccessKeys returns as many keys as the schemas of the properties emit
\* together, a scalar property emitting one, and every key is the name of a
\* property or starts with the name and "."
C12_CountIsSumOfProperties ==
    (op = "GenAccessKeys" /\ raw \in EndingDocs /\ ObjectRoot) =>
        /\ Generated
        /\ Len(ret.keys) = EmittedSum(DOMAIN RootProperties)
        /\ \A name \in DOMAIN RootProperties :
               IsScalar(RootProperties[name]) => EmittedCount(name) = 1
        /\ \A k \in 1..Len(ret.keys) : \E name \in DOMAIN RootProperties :
               ret.keys[k] = name \/ HasPrefix(ret.keys[k], name \o <<".">>)

\* every node of the document that the walk visits has a type
WellFormed(doc) ==
    \A place \in Places(doc, doc, <<>>) : IsStr(MapGet(place.node, sType))

\* the walk of the document emits no key
EmitsNothing(doc) ==
    traverse(doc, Walk({}, 0, <<>>, Nil), doc, <<>>, 1,
             CHOOSE ord \in PropOrders : TRUE).accessKeys = <<>>

\* C13: on a well-formed document GenAccessKeys returns a list, which is
\* the empty list when the walk emits no key
C13_NeverFails ==
    (op = "GenAccessKeys" /\ raw \in EndingDocs /\ WellFormed(raw)) =>
        /\ Generated
        /\ EmitsNothing(raw) => ret = Keys(<<>>)

\* the array nodes whose items is a single schema
HomogeneousPlaces ==
    {place \in Places(raw, raw, <<>>) :
        TypeIs(place.node, sArray) /\ IsMap(MapGet(place.node, sItems))}

ItemsSchema(place) == FollowRefs(raw, place.node.m[sItems])

\* the keys the walk emits from a node at a path
EmittedAt(node, path, ord) ==
    traverse(raw, Walk({}, 0, <<>>, Nil), node, path, 2, ord).accessKeys

\* the keys of a list that are a path or lie below it
AtOrBelow(keys, path) ==
    SelectSeq(keys, LAMBDA key :
        key = path \/ HasPrefix(key, path \o <<".">>))

\* what the claim expects of the keys of a homogeneous array
ExpectedOfItems(place, ord) ==
    IF TypeIs(ItemsSchema(place), sObject) \/ TypeIs(ItemsSchema(place), sArray)
    THEN EmittedAt(ItemsSchema(place), place.path \o <<".", "*">>, ord)
    ELSE <<place.path>>

\* C14: an array node at path p whose items is a single schema: when the
\* dereferenced items is an object or an array the walk emits for the node
\* the keys of the items schema under p.*, otherwise the one key p; and
\* below the root these are the keys GenAccessKeys returns for the node
C14_HomogeneousItems ==
    (Generated /\ raw \in EndingDocs) =>
        \A place \in HomogeneousPlaces :
            /\ \A ord \in PropOrders :
                   EmittedAt(place.node, place.path, ord)
                       = ExpectedOfItems(place, ord)
            /\ place.path # <<>> =>
                   \E ord \in PropOrders :
                       AtOrBelow(ret.keys, place.path)
                           = ExpectedOfItems(place, ord)

\* arrays of scalars, of arrays and of objects give a, b.*, c.*.c, c.*.a
C14_Witness ==
    /\ Generated
    /\ raw = DocArrays
    /\ {place.path : place \in HomogeneousPlaces}
           = {kA, kB, kB \o <<".", "*">>, kC, kC \o <<".", "*", ".">> \o kA}
    /\ {ret.keys[k] : k \in 1..Len(ret.keys)}
           = {kA, kB \o <<".", "*">>,
              kC \o <<".", "*", ".">> \o kC, kC \o <<".", "*", ".">> \o kA}

-----------------------------------------------------------------------------
(* Claims about the memoized keys, checked under SpecMemo *)

\* C15: the list a GenAccessKeys call returns, when it is not empty, is the
\* list the helper keeps; a list kept is never changed by any call, and
\* every later GenAccessKeys call returns it as it is
C15_Memoized ==
    /\ []((Generated /\ ret.keys # <<>>) => accessKeys = ret.keys)
    /\ [][Len(accessKeys) > 0 =>
             /\ accessKeys' = accessKeys
             /\ op' = "GenAccessKeys" => ret' = Keys(accessKeys)]_vars

\* the keys of DocTuple returned again after SetSchema made DocArrays the
\* document
C15_Witness ==
    /\ op = "GenAccessKeys"
    /\ calls = 3
    /\ raw = DocArrays
    /\ prev = Nil
    /\ ret = Keys(accessKeys)
    /\ {ret.keys[k] : k \in 1..Len(ret.keys)}
           = {kA, kB \o <<".", "0">>, kB \o <<".", "1", ".">> \o kC}

-----------------------------------------------------------------------------
(* Claims about all three traversals, checked under SpecAll *)

-----------------------------------------------------------------------------
(* Claims about the resolver, checked under SpecRef *)

\* the segments of the ref, and the value they lead to from the root: nil
\* when a segment is lacking or is applied to a value that is no mapping
RefParts == Split(TrimPrefix(arg.ref, <<"#", "/">>), "/")
RefValue == Lookup(raw, RefParts)

\* C20: ResolveRef never ends in a runtime failure; it returns an error for
\* a ref that does not start with "#", that names a lacking segment, or
\* that passes through or ends at a value that is no mapping, and returns
\* the mapping the segments lead to otherwise
C20_ResolveRefErrors ==
    op = "ResolveRef" =>
        /\ ~IsPanic(ret)
        /\ IF HasPrefix(arg.ref, <<"#">>) /\ IsMap(RefValue)
           THEN ret = Ok(RefValue)
           ELSE IsErr(ret) /\ IsNil(ret.node)

-----------------------------------------------------------------------------
(* Claims about keys with two wildcards, checked under SpecStar *)

\* the values a key addresses in a data tree, in the order of the elements:
\* `*` addresses every element of a sequence, a name the value a mapping
\* stores under it; null values are not addressed
RECURSIVE Addressed(_, _)
Addressed(v, keys) ==
    IF IsNil(v) THEN <<>>
    ELSE IF Len(keys) = 0 THEN <<v>>
    ELSE IF keys[1] = <<"*">> THEN
        IF IsSlice(v)
        THEN LET each == [n \in 1..Len(v.e) |-> Addressed(v.e[n], Tail(keys))]
                 flat[n \in 0..Len(each)] ==
                     IF n = 0 THEN <<>> ELSE flat[n - 1] \o each[n]
             IN  flat[Len(each)]
        ELSE <<>>
    ELSE IF IsMap(v) /\ MapHas(v, keys[1])
    THEN Addressed(v.m[keys[1]], Tail(keys))
    ELSE <<>>

Stars(keys) == Cardinality({n \in 1..Len(keys) : keys[n] = <<"*">>})

\* the key fits the data: wherever a `*` is applied there is a sequence (or
\* null), wherever a name is applied there is a mapping (or null)
RECURSIVE Fits(_, _)
Fits(v, keys) ==
    IF IsNil(v) \/ Len(keys) = 0 THEN TRUE
    ELSE IF keys[1] = <<"*">>
    THEN IsSlice(v) /\ \A n \in 1..Len(v.e) : Fits(v.e[n], Tail(keys))
    ELSE IsMap(v) /\ (MapHas(v, keys[1]) => Fits(v.m[keys[1]], Tail(keys)))

\* C21: a key with two or more `*` segments over nested sequences returns
\* one flat sequence of the addressed values, ordered by outer and then by
\* inner element, absent and null ones dropped; no member of it is a
\* sequence made by the inner wildcard
C21_WildcardsCompose ==
    (Evaluated /\ Stars(ArgKeys) >= 2 /\ Fits(arg.data, ArgKeys)) =>
        /\ IsSlice(ret)
        /\ ret.e = Addressed(arg.data, ArgKeys)
        /\ \A n \in 1..Len(ret.e) : ~IsSlice(ret.e[n])

\* two outer elements with two and one inner elements: x, y of the first,
\* then x of the second; the inner element lacking j gives nothing
C21_Witness ==
    /\ Evaluated
    /\ arg.accessKey = <<"p", ".", "*", ".", "k", ".", "*", ".", "j">>
    /\ arg.data = Map(kP :> Slice(<<
           Map(kK :> Slice(<<Map(kJ :> vX), Map(kJ :> vY)>>)),
           Map(kK :> Slice(<<Map(kK :> vX), Map(kJ :> vX)>>))>>))
    /\ ret = Slice(<<vX, vY, vX>>)

-----------------------------------------------------------------------------
(* Claims about the branches of the evaluator, checked under SpecEval *)

\* the evaluator without its two compound branches (helper.go 273-295 and
\* 327-353)
RECURSIVE FindLoopPlain(_, _, _, _)
RECURSIVE BroadcastPlain(_, _, _, _)

BroadcastPlain(vals, rest, ord, result) ==
    IF Len(vals) = 0 THEN ResultSlice(result)
    ELSE LET elem == FindLoopPlain(vals[1], Split(rest, "."), 1, ord)
         IN  IF IsPanic(elem) THEN elem
             ELSE BroadcastPlain(Tail(vals), rest, ord,
                                 AppendElem(result, elem))

FindLoopPlain(currentData, keys, i, ord) ==
    IF i > Len(keys) THEN currentData
    ELSE
    LET key == keys[i]
        rest1 == Join(SubSeq(keys, i + 1, Len(keys)), ".")
    IN
    IF IsSlice(currentData) THEN
        LET arrData == currentData.e
            index == Atoi(key).n
        IN  IF key = <<"*">> THEN BroadcastPlain(arrData, rest1, ord, <<>>)
            ELSE IF index >= Len(arrData) THEN IndexMiss
            ELSE IF index < 0 THEN Panic("index out of range")
            ELSE IF IsNil(arrData[index + 1]) THEN IndexMiss
            ELSE FindLoopPlain(arrData[index + 1], keys, i + 1, ord)
    ELSE IF IsMap(currentData) THEN
        IF key = <<"*">>
        THEN BroadcastPlain(RangeValues(currentData, ord), rest1, ord, <<>>)
        ELSE IF IsNil(MapGet(currentData, key)) THEN KeyMiss
        ELSE FindLoopPlain(MapGet(currentData, key), keys, i + 1, ord)
    ELSE Nil

\* C22: no segment of a key split on every "." matches a compound pattern,
\* and the result is the result of the evaluator without the two compound
\* branches
C22_CompoundUnreachable ==
    Evaluated =>
        /\ \A k \in 1..Len(ArgKeys) :
               /\ ~MatchStarDotDigits(ArgKeys[k])
               /\ ~MatchStarDotNotStar(ArgKeys[k])
        /\ \E ord \in MapOrders :
               ret = FindLoopPlain(arg.data, ArgKeys, 1, ord)

\* the key *.k, which has the form of the compound pattern, is split into
\* the segments * and k
C22_Witness ==
    /\ Evaluated
    /\ arg.accessKey = <<"*", ".", "k">>
    /\ MatchStarDotNotStar(arg.accessKey)
    /\ ArgKeys = <<<<"*">>, kK>>
    /\ arg.data = Slice(<<Map(kK :> vX), Map(kJ :> vY)>>)
    /\ ret = Slice(<<vX>>)

\* the descent stops at a segment applied to a sequence that is neither *
\* nor a decimal non-negative integer
NameOnSequence ==
    /\ ArgStop.at <= Len(ArgKeys)
    /\ IsSlice(ArgStop.node)
    /\ ArgKeys[ArgStop.at] # <<"*">>
    /\ ~IsDecimal(ArgKeys[ArgStop.at])

\* C29: a segment that is neither * nor a decimal non-negative integer,
\* applied to a sequence, selects no element: the result is absent or an
\* empty sequence
C29_NameSelectsNothing ==
    (Evaluated /\ NameOnSequence) =>
        \/ IsNil(ret)
        \/ IsSlice(ret) /\ Len(ret.e) = 0

-----------------------------------------------------------------------------
(* Claims about the form of the access keys, checked under Spec *)

\* no segment of the key is empty: the key is not empty, neither starts nor
\* ends with "." and holds no ".."
NoEmptySegment(key) ==
    \A n \in 1..Len(Split(key, ".")) : Split(key, ".")[n] # <<>>

\* C27: every key GenAccessKeys returns is well formed: it has no empty
\* segment
C27_KeysWellFormed ==
    Generated => \A n \in 1..Len(ret.keys) : NoEmptySegment(ret.keys[n])

\* the key as a pointer: "/" and the key, each "." replaced by "/"
KeyPointer(key) ==
    <<"/">> \o [n \in 1..Len(key) |-> IF key[n] = "." THEN "/" ELSE key[n]]

\* a node whose type is neither object nor array
ScalarTyped(node) ==
    /\ IsMap(node)
    /\ IsStr(MapGet(node, sType))
    /\ MapGet(node, sType) \notin {Str(sObject), Str(sArray)}

\* a leaf of the walk: a scalar, an opaque object, or an array whose items
\* is one scalar schema
WalkLeaf(node) ==
    \/ ScalarTyped(node)
    \/ TypeIs(node, sObject) /\ MapGet(node, sWidget) = Str(sRawJsonTree)
    \/ /\ TypeIs(node, sArray)
       /\ IsMap(MapGet(node, sItems))
       /\ ScalarTyped(FollowRefs(raw, node.m[sItems]))

\* C28: on a document whose root is an object, every key GenAccessKeys
\* returns, taken as a pointer, is resolved without error by
\* GetSchemaMapByPointer on the same document, to a leaf of the walk
C28_KeysResolve ==
    (Generated /\ TypeIs(raw, sObject)) =>
        \A n \in 1..Len(ret.keys) :
            LET node == GetSchemaMapByPointer(raw, KeyPointer(ret.keys[n]))
            IN  IsOk(node) /\ WalkLeaf(node.node)

\* the keys of the document of arrays: c.*.a goes through a homogeneous
\* array with the segment *, and b.* ends at an array of scalars
C28_Witness ==
    /\ Generated
    /\ raw = DocArrays
    /\ \E n \in 1..Len(ret.keys) :
           /\ ret.keys[n] = kC \o <<".", "*", ".">> \o kA
           /\ KeyPointer(ret.keys[n]) = <<"/">> \o kC \o <<"/", "*", "/">> \o kA
           /\ IsOk(GetSchemaMapByPointer(raw, KeyPointer(ret.keys[n])))
    /\ \E n \in 1..Len(ret.keys) :
           /\ ret.keys[n] = kB \o <<".", "*">>
           /\ TypeIs(GetSchemaMapByPointer(raw, KeyPointer(ret.keys[n])).node,
                     sArray)

-----------------------------------------------------------------------------
(* A helper for a document with a $ref that names no definition *)

\* the definition Y is lacking: at a property, at the items of a
\* homogeneous array and in a positional list, with one leaf left
DocDangling ==
    WithDefs(dX :> Object(kC :> TString),
             Object(kA :> RefTo(dY) @@ kB :> Array(RefTo(dY))
                 @@ kC :> Array(Slice(<<RefTo(dY), RefTo(dX)>>))))

\* at a property between two leaves
DocDanglingProperty ==
    WithDefs(dX :> TString,
             Object(kA :> TNumber @@ kB :> RefTo(dY) @@ kC :> RefTo(dX)))

\* at the items of an array, in a document without "$defs"
DocDanglingItems ==
    Object(kA :> Array(RefTo(dY)) @@ kB :> Object(kC :> Array(TString)))

\* a $ref to a lacking definition is the only property
DocDanglingOnly == WithDefs(dX :> TString, Object(kA :> RefTo(dY)))

DanglingDocs ==
    {DocDangling, DocDanglingProperty, DocDanglingItems, DocDanglingOnly}

InitDangling ==
    /\ raw \in DanglingDocs
    /\ visited = {}
    /\ accessKeys = <<>>
    /\ heap = 0
    /\ calls = 0
    /\ op = "NewSchemaHelper"
    /\ arg = NoHelper
    /\ ret = NoHelper
    /\ prev = NoHelper

SpecDangling == InitDangling /\ [][Next]_vars

\* a $ref node whose chain of references ends at no definition
Dangling(v) == IsRefNode(v) /\ IsNil(FollowRefs(raw, v))

\* the tree with every such node replaced by an object without properties,
\* for which the walk emits nothing
RECURSIVE Pruned(_)
Pruned(v) ==
    IF Dangling(v) THEN Map(sType :> Str(sObject))
    ELSE IF IsMap(v) THEN Map([key \in DOMAIN v.m |-> Pruned(v.m[key])])
    ELSE IF IsSlice(v) THEN Slice([n \in 1..Len(v.e) |-> Pruned(v.e[n])])
    ELSE v

\* the keys of the other subtrees, for an enumeration order
OtherKeys(ord) ==
    traverse(Pruned(raw), Walk({}, 0, <<>>, Nil), Pruned(raw), <<>>, 1,
             ord).accessKeys

-----------------------------------------------------------------------------
(* Goroutines sharing one helper: each calls c.GenAccessKeys(), and the    *)
(* steps of the calls interleave.  The helper has no lock, so the reads    *)
(* and writes of c.accessKeys race: an append reads the slice and stores   *)
(* the extended slice in two steps, and another goroutine may store in     *)
(* between.  The documents hold no $ref, so no goroutine touches           *)
(* c.visited, a Go map whose concurrent writes are a fatal error.          *)

\* the goroutines calling GenAccessKeys on the shared helper
MaxGoroutines == 2
Goroutines == 1..MaxGoroutines

\* an "already computed" test that never holds
MemoizedNever(keys) == FALSE

\* if len(c.accessKeys) > 0 { return c.accessKeys }
Memoized(keys) == Len(keys) > 0

\* the paths that c.traverse(c.raw, "") appends, in the order it appends
\* them
Appends(doc, ord) ==
    traverse(doc, Walk({}, 0, <<>>, Nil), doc, <<>>, 1, ord)

\* documents without $ref: of two leaves, of one leaf, with a root that is
\* a leaf, and without a leaf
RaceDocs ==
    { DocTupleRoot, DocSparse, DocArrayRoot, DocScalarRoot, DocScalarsRoot,
      DocOpaqueRoot, DocEmptyObject, DocNoItems }

\* a goroutine: where it is in GenAccessKeys, the paths its traversal has
\* still to append, the slice it has read, the length it saw at the test
\* of line 222, and what it returned
Goroutine(pc, todo, snap, saw, out) ==
    [pc |-> pc, todo |-> todo, snap |-> snap, saw |-> saw, out |-> out]

InitRace ==
    /\ raw \in RaceDocs
    /\ visited = {}
    /\ accessKeys = <<>>
    /\ heap = 0
    /\ calls = 0
    /\ op = "NewSchemaHelper"
    /\ arg = [g \in Goroutines |-> Goroutine("call", <<>>, <<>>, 0, NoHelper)]
    /\ ret = NoHelper
    /\ prev = NoHelper

\* a runtime failure in one goroutine ends the process
Alive(g) == IsMap(raw) /\ g \in DOMAIN arg /\ ~IsPanic(ret)

Moves(g, next) ==
    /\ arg' = [arg EXCEPT ![g] = next]
    /\ op' = "go GenAccessKeys"
    /\ UNCHANGED <<raw, visited, heap>>

\* line 222: the test, and the return of the memoized list
GoCheck(g) ==
    /\ Alive(g)
    /\ arg[g].pc = "call"
    /\ IF Memoized(accessKeys)
       THEN /\ Moves(g, Goroutine("done", <<>>, <<>>, Len(accessKeys),
                                  Keys(accessKeys)))
            /\ ret' = Keys(accessKeys)
            /\ prev' = ret
            /\ calls' = calls + 1
       ELSE /\ \E ord \in PropOrders :
                Moves(g, Goroutine("walk", Appends(raw, ord).accessKeys,
                                   <<>>, Len(accessKeys), NoHelper))
            /\ UNCHANGED <<ret, prev, calls>>
    /\ UNCHANGED accessKeys

\* c.accessKeys = append(c.accessKeys, currentPath): the read
GoAppendRead(g) ==
    /\ Alive(g)
    /\ arg[g].pc = "walk"
    /\ arg[g].todo # <<>>
    /\ Moves(g, [arg[g] EXCEPT !.pc = "store", !.snap = accessKeys])
    /\ UNCHANGED <<accessKeys, ret, prev, calls>>

\* c.accessKeys = append(c.accessKeys, currentPath): the store
GoAppendStore(g) ==
    /\ Alive(g)
    /\ arg[g].pc = "store"
    /\ accessKeys' = Append(arg[g].snap, Head(arg[g].todo))
    /\ Moves(g, [arg[g] EXCEPT !.pc = "walk", !.todo = Tail(arg[g].todo),
                               !.snap = <<>>])
    /\ UNCHANGED <<ret, prev, calls>>

\* line 228: if c.accessKeys[0] == ""
GoFirst(g) ==
    /\ Alive(g)
    /\ arg[g].pc = "walk"
    /\ arg[g].todo = <<>>
    /\ IF Len(accessKeys) = 0
       THEN /\ Moves(g, [arg[g] EXCEPT !.pc = "done",
                                       !.out = Panic("index out of range")])
            /\ ret' = Panic("index out of range")
            /\ prev' = ret
            /\ calls' = calls + 1
       ELSE /\ Moves(g, [arg[g] EXCEPT
                    !.pc = IF accessKeys[1] = <<>> THEN "slice" ELSE "return"])
            /\ UNCHANGED <<ret, prev, calls>>
    /\ UNCHANGED accessKeys

\* line 229, c.accessKeys = c.accessKeys[1:]: the read
GoSliceRead(g) ==
    /\ Alive(g)
    /\ arg[g].pc = "slice"
    /\ IF Len(accessKeys) = 0
       THEN /\ Moves(g, [arg[g] EXCEPT !.pc = "done",
                             !.out = Panic("slice bounds out of range")])
            /\ ret' = Panic("slice bounds out of range")
            /\ prev' = ret
            /\ calls' = calls + 1
       ELSE /\ Moves(g, [arg[g] EXCEPT !.pc = "cut", !.snap = accessKeys])
            /\ UNCHANGED <<ret, prev, calls>>
    /\ UNCHANGED accessKeys

\* line 229, c.accessKeys = c.accessKeys[1:]: the store
GoSliceStore(g) ==
    /\ Alive(g)
    /\ arg[g].pc = "cut"
    /\ accessKeys' = Tail(arg[g].snap)
    /\ Moves(g, [arg[g] EXCEPT !.pc = "return", !.snap = <<>>])
    /\ UNCHANGED <<ret, prev, calls>>

\* line 232: return c.accessKeys
GoReturn(g) ==
    /\ Alive(g)
    /\ arg[g].pc = "return"
    /\ Moves(g, [arg[g] EXCEPT !.pc = "done", !.out = Keys(accessKeys)])
    /\ ret' = Keys(accessKeys)
    /\ prev' = ret
    /\ calls' = calls + 1
    /\ UNCHANGED accessKeys

NextRace ==
    \E g \in Goroutines :
        \/ GoCheck(g)
        \/ GoAppendRead(g)
        \/ GoAppendStore(g)
        \/ GoFirst(g)
        \/ GoSliceRead(g)
        \/ GoSliceStore(g)
        \/ GoReturn(g)

SpecRace == InitRace /\ [][NextRace]_vars

\* the list one call alone memoizes, for an enumeration order
Sequential(ord) ==
    GenAccessKeys(raw, Walk({}, 0, <<>>, Nil), ord).accessKeys

AllReturned == \A g \in Goroutines : arg[g].pc = "done" /\ arg[g].out.t = "keys"

\* C23: two calls of GenAccessKeys on one helper that both pass the test of
\* line 222 before either has appended can leave a memoized list that no
\* call alone produces, such as one with every key twice (C23_Witness);
\* calls of which only one saw the list empty leave the list of one call
C23_RacingCallsDiffer ==
    (AllReturned /\ \A ord \in PropOrders : accessKeys # Sequential(ord)) =>
        Cardinality({g \in Goroutines : arg[g].saw = 0}) >= 2

\* both calls saw the list empty, both returned, and the list holds the
\* keys of the document twice
C23_Witness ==
    /\ AllReturned
    /\ \A g \in Goroutines : arg[g].saw = 0
    /\ \E ord \in PropOrders :
           /\ Len(Sequential(ord)) >= 2
           /\ accessKeys = Sequential(ord) \o Sequential(ord)

-----------------------------------------------------------------------------
(* The tag mapper of Reflector.AddTagSetMapper, shortcut.go 1245-1288: a   *)
(* function of the field name it was registered for, the value of the tag  *)
(* and the Schema being built.  A Schema is a record of the fields that    *)
(* matter to the mapper; tag values and field values are compared only for *)
(* equality and are strings of TLA+ here.                                  *)

\* the fields of Schema (schema.go 50, 63, 69-74, 86) and their kinds; the
\* field boolean is not exported
SchemaKinds ==
    [ Title |-> "string", Description |-> "string", Format |-> "string",
      Deprecated |-> "bool", ReadOnly |-> "bool", WriteOnly |-> "bool",
      MaxLength |-> "ptr", boolean |-> "ptr" ]

\* field.IsValid() && field.CanSet(): the struct has the field, and the
\* field is exported
CanSetField(fieldName) ==
    fieldName \in DOMAIN SchemaKinds /\ fieldName # "boolean"

\* case reflect.Bool, lines 1270-1279: a case of a Go switch does not fall
\* through, so the cases without a body do nothing
SetBool(tagValue, old) ==
    IF tagValue = "1" THEN old
    ELSE IF tagValue = "true" THEN old
    ELSE IF tagValue = "True" THEN TRUE
    ELSE IF tagValue = "0" THEN old
    ELSE IF tagValue = "false" THEN old
    ELSE IF tagValue = "False" THEN FALSE
    ELSE old

\* the function registered by AddTagSetMapper(tagName, fieldName), applied
\* to a tag value and the Schema `now`; Schema has no field of kind Uint or
\* Int, so lines 1260-1269 are never reached
TagSetMapper(fieldName, tagValue, now) ==
    IF fieldName = "Title" THEN [now EXCEPT !.Title = tagValue]
    ELSE IF fieldName = "Description"
    THEN [now EXCEPT !.Description = tagValue]
    ELSE IF ~CanSetField(fieldName) THEN now
    ELSE IF SchemaKinds[fieldName] = "bool"
    THEN [now EXCEPT ![fieldName] = SetBool(tagValue, now[fieldName])]
    ELSE IF SchemaKinds[fieldName] = "string"
    THEN [now EXCEPT ![fieldName] = tagValue]
    ELSE now

\* the most tags mapped onto one Schema
MaxTags == 2

FieldNames == DOMAIN SchemaKinds \cup {"NoSuchField"}
\* a mapper is called for a tag value of at least one character
TagValues ==
    {"1", "true", "True", "0", "false", "False", "TRUE", "yes", "t"}

\* a Schema as reflection has filled it before the mappers run
NewSchema ==
    [ Title |-> "", Description |-> "", Format |-> "",
      Deprecated |-> FALSE, ReadOnly |-> FALSE, WriteOnly |-> FALSE,
      MaxLength |-> "nil", boolean |-> "nil" ]

InitTag ==
    /\ raw = NoHelper
    /\ visited = {}
    /\ accessKeys = <<>>
    /\ heap = 0
    /\ calls = 0
    /\ op = "reflect"
    /\ arg = NoHelper
    /\ ret \in {[NewSchema EXCEPT !.ReadOnly = ro, !.Deprecated = de] :
                   ro \in BOOLEAN, de \in BOOLEAN}
    /\ prev = NoHelper

\* shortcut.go 644-651: the mapper of a tag the field carries is called
\* with the value of the tag and the Schema of the field
CallTagSetMapper ==
    /\ op \in {"reflect", "TagSetMapper"}
    /\ calls < MaxTags
    /\ \E fieldName \in FieldNames, tagValue \in TagValues :
        /\ arg' = [fieldName |-> fieldName, tagValue |-> tagValue]
        /\ ret' = TagSetMapper(fieldName, tagValue, ret)
    /\ prev' = ret
    /\ op' = "TagSetMapper"
    /\ calls' = calls + 1
    /\ UNCHANGED <<raw, visited, accessKeys, heap>>

NextTag == CallTagSetMapper

SpecTag == InitTag /\ [][NextTag]_vars

Mapped == op = "TagSetMapper"

\* C25: a mapper registered for a bool field sets the field to true for the
\* tag values "1", "true" and "True", to false for "0", "false" and "False",
\* and leaves it as it was for every other tag value
C25_BoolTagParsed ==
    (Mapped /\ CanSetField(arg.fieldName)
            /\ SchemaKinds[arg.fieldName] = "bool") =>
        ret[arg.fieldName] =
            IF arg.tagValue \in {"1", "true", "True"} THEN TRUE
            ELSE IF arg.tagValue \in {"0", "false", "False"} THEN FALSE
            ELSE prev[arg.fieldName]

=============================================================================
